---- MODULE Spec2Model ----
(***************************************************************************)
(* A model of the single-client RFB (VNC) server core of chocolate-doom:   *)
(* src/src/i_vnc.c, i_vnc.h and the glue of i_video.c.                     *)
(*                                                                         *)
(* The state is the vnc_server_t record (one variable per field), the      *)
(* descriptor table of the process, the locals of the function that is     *)
(* running (VNC_Init, VNC_PumpMessages) and the position inside it.  The   *)
(* steps are cut at the system calls (accept, send, recv, select), where   *)
(* the client and the network act.                                         *)
(***************************************************************************)
EXTENDS Integers, Sequences, FiniteSets, TLC

(***************************************************************************)
(* Program constants.                                                      *)
(***************************************************************************)
VNC_PACKET_SIZE == 1024
VNC_RAW == 0
VNC_TIGHT == 7
VNC_CLIENT_SETPIXELFORMAT == 0
VNC_CLIENT_SETENCODINGS == 2
VNC_CLIENT_FRAMEBUFFERUPDATEREQUEST == 3
VNC_CLIENT_KEYEVENT == 4
VNC_CLIENT_POINTEREVENT == 5
VNC_CLIENT_CLIENTCUTTEXT == 6

(***************************************************************************)
(* Bounds of the model (not program constants).                            *)
(***************************************************************************)
\* descriptors 0..FdLimit-1 exist; accept fails (EMFILE) when none is free
FdLimit == 6
\* number of write calls the client makes in a session of pointer and key
\* input
MaxInputs == 2
\* number of write calls the client makes after the handshake
MaxSends == 1
\* recv takes all the bytes it can or leaves up to MaxHold of them for the
\* next call (so a backlog of MaxHold + 1 bytes or less arrives in every
\* possible chunking)
MaxHold == 4

Byte == 0..255
NULL == "NULL"
ALLOCATED == "allocated"

VARIABLES
    \* ---- vnc_server_t (i_vnc.h) ----
    peer, send_frame, client_packet, packet_cursor, text_input, encoding,
    server_packet, palette, mouse_x, mouse_y, width, height,
    \* ---- process ----
    pc,             \* position of the engine thread
    open_fds,       \* descriptors open in the process
    server_sock,    \* local of VNC_Init
    client_init_buffer, \* local of VNC_Init
    \* ---- the handshake in progress, as seen on the wire ----
    transcript,
    \* ---- VNC_PumpMessages locals ----
    new_mouse_x, new_mouse_y, mouse_buttons, old_scan_pos, message_scan_pos,
    \* ---- the client and the connection after the handshake ----
    sent_msgs,      \* the writes the client has made (indices into ClientWrites)
    wire,           \* bytes written by the client and not yet received
    \* ---- the engine's event queue (D_PostEvent) ----
    events,
    \* ---- i_video.c ----
    initialized,
    \* ---- what the calls did, as seen from outside ----
    frames,         \* the FramebufferUpdate messages VNC_SendFrame has put on the wire
    returned,       \* the function of the core that returned last
    \* ---- SendRawVNCFrame and SendTightVNCFrame, statement by statement ----
    frame,          \* the frame argument: the indices of the pixels, as a pattern
                    \* that is repeated to the length of the frame
    palette_rgb,    \* what VNC_PreparePalette has stored in the palette buffer
    epc,            \* position inside the encoder
    frame_i,        \* the loop variable i
    send_offset,    \* offset
    written,        \* the bytes the last step stored in server_packet, the
                    \* last of them at send_offset - 1
    zlib_data_left, \* data_left
    zlib_block_capacity, adler_s1, adler_s2, zlib_data_size, zlib_data_start

server == <<peer, send_frame, client_packet, packet_cursor, text_input, encoding,
            server_packet, palette, mouse_x, mouse_y, width, height>>
pump_locals == <<new_mouse_x, new_mouse_y, mouse_buttons, old_scan_pos, message_scan_pos>>
init_locals == <<server_sock, client_init_buffer, transcript>>
client == <<sent_msgs, wire>>
engine == <<initialized, frames, returned>>
encoder == <<frame, palette_rgb, epc, frame_i, send_offset, written, zlib_data_left,
             zlib_block_capacity, adler_s1, adler_s2, zlib_data_size, zlib_data_start>>
vars == <<server, pc, open_fds, init_locals, pump_locals, client, events, engine, encoder>>

\* no encoder is running
EncoderAtRest ==
    /\ frame = <<0>> /\ palette_rgb = <<0, 0>> /\ epc = "none"
    /\ frame_i = 0 /\ send_offset = 0 /\ written = <<>>
    /\ zlib_data_left = 0 /\ zlib_block_capacity = 0
    /\ adler_s1 = 0 /\ adler_s2 = 0 /\ zlib_data_size = 0 /\ zlib_data_start = 0

(***************************************************************************)
(* Byte strings of the handshake.                                          *)
(***************************************************************************)
\* "RFB 003.008\n"
VersionString == <<82, 70, 66, 32, 48, 48, 51, 46, 48, 48, 56, 10>>
\* the first 18 bytes of "\x00\x00\x00\x00\x13Unsupported version"
VersionFailure == <<0, 0, 0, 0, 19,
                    85, 110, 115, 117, 112, 112, 111, 114, 116, 101, 100, 32, 118>>
\* "\x01\x01"
SecurityTypes == <<1, 1>>
\* "\x00\x00\x00\x01\x00\x00\x00\x11Illegal auth type", 25 bytes
SecurityFailure == <<0, 0, 0, 1, 0, 0, 0, 17,
                     73, 108, 108, 101, 103, 97, 108, 32, 97, 117, 116, 104, 32,
                     116, 121, 112, 101>>
\* "\x00\x00\x00\x00"
SecurityOk == <<0, 0, 0, 0>>

\* server_init[0..27]; bytes 17..19 are never written: u is what the stack held
ServerInit(w, h, u) ==
    << (w \div 256) % 256, w % 256, (h \div 256) % 256, h % 256,
       32, 24, 0, 1, 0, 255, 0, 255, 0, 255, 16, 8, 0,
       u[1], u[2], u[3],
       0, 0, 0, 4, 68, 79, 79, 77 >>

\* (mutant of StrNEq) the comparison stops one byte early, as "%.11s" does
StrNEqShort(a, b, n) ==
    \A i \in 1..(n - 1) : a[i] = b[i]

\* strncmp(a, b, n) != 0 is ~StrNEq(a, b, n): bytes are compared up to the
\* first difference, the first NUL or n bytes
StrNEq(a, b, n) ==
    \A i \in 1..n : (\A j \in 1..(i-1) : a[j] = b[j] /\ a[j] # 0) => a[i] = b[i]

\* What a client may answer to the version string (12 bytes each)
ClientVersions ==
    { VersionString,
      <<82, 70, 66, 32, 48, 48, 51, 46, 48, 48, 51, 10>>,     \* "RFB 003.003\n"
      <<82, 70, 66, 32, 48, 48, 51, 46, 48, 48, 56, 13>> }    \* "RFB 003.008\r"
ClientSecurityChoices == {1, 2}
ClientSharedFlags == {0, 1}
\* what the three unwritten bytes of server_init may hold
StackGarbage == { <<0, 0, 0>>, <<255, 1, 127>> }
\* the dimensions I_InitGraphics passes (SCREENWIDTH x SCREENHEIGHT)
Dimensions == { <<320, 200>> }

(***************************************************************************)
(* Descriptors.  socket and accept return the lowest free descriptor.      *)
(***************************************************************************)
FreeFds == (3..(FdLimit - 1)) \ open_fds
LowestFree == CHOOSE f \in FreeFds : \A g \in FreeFds : f <= g

\* close(fd): closing -1 or a closed descriptor fails with EBADF
Close(fds, fd) == fds \ {fd}

\* one entry of the transcript: a SendAll or RecvAll call on the peer
Sent(data, ok) == [dir |-> "send", data |-> data, ok |-> ok]
Received(data, ok) == [dir |-> "recv", data |-> data, ok |-> ok]

(***************************************************************************)
(* Initial state: the program before I_InitGraphics.  vnc_server is a      *)
(* global, so every field is zero.                                         *)
(***************************************************************************)
Init ==
    /\ peer = 0 /\ send_frame = FALSE /\ client_packet = <<>>
    /\ packet_cursor = 0 /\ text_input = FALSE /\ encoding = VNC_RAW
    /\ server_packet = NULL /\ palette = NULL
    /\ mouse_x = 0 /\ mouse_y = 0 /\ width = 0 /\ height = 0
    /\ pc = "start"
    /\ open_fds = {0, 1, 2}
    /\ server_sock = -1 /\ client_init_buffer = <<>> /\ transcript = <<>>
    /\ new_mouse_x = -1 /\ new_mouse_y = -1 /\ mouse_buttons = -1
    /\ old_scan_pos = 0 /\ message_scan_pos = 0
    /\ sent_msgs = <<>> /\ wire = <<>>
    /\ events = <<>>
    /\ initialized = FALSE /\ frames = <<>> /\ returned = "none"
    /\ EncoderAtRest

(***************************************************************************)
(* VNC_Init                                                                *)
(***************************************************************************)
served == <<send_frame, client_packet, packet_cursor, text_input, encoding,
            server_packet, palette, mouse_x, mouse_y, width, height>>

\* lines 499-523: the fields, socket, bind, listen
VNC_InitEnter ==
    /\ pc = "start"
    /\ \E d \in Dimensions :
        /\ width' = d[1]
        /\ height' = d[2]
    /\ send_frame' = FALSE
    /\ server_packet' = ALLOCATED
    /\ text_input' = FALSE
    /\ encoding' = VNC_RAW
    /\ palette' = NULL
    /\ mouse_x' = 0
    /\ mouse_y' = 0
    /\ \/ /\ server_sock' = LowestFree
          /\ open_fds' = open_fds \cup {LowestFree}
       \/ /\ server_sock' = -1              \* socket() failed; not checked
          /\ open_fds' = open_fds
    /\ peer' = -1
    /\ pc' = "accept"
    /\ UNCHANGED <<client_packet, packet_cursor, client_init_buffer, transcript,
                   pump_locals, client, events>>
    /\ UNCHANGED <<engine, encoder>>

\* (mutant of ClientAbort) the peer is forgotten but not closed
ClientAbortLeak ==
    /\ open_fds' = open_fds
    /\ peer' = -1
    /\ pc' = "accept"
    /\ client_init_buffer' = <<>>

\* client_abort: close(server->peer); server->peer = -1; continue
ClientAbort ==
    /\ open_fds' = Close(open_fds, peer)
    /\ peer' = -1
    /\ pc' = "accept"
    /\ client_init_buffer' = <<>>

\* line 529: accept
Accept ==
    /\ pc = "accept"
    /\ \/ /\ server_sock # -1
          /\ FreeFds # {}
          /\ peer' = LowestFree
          /\ open_fds' = open_fds \cup {LowestFree}
          /\ transcript' = <<>>
          /\ pc' = "send_version"
       \/ /\ peer' = -1                     \* accept failed: continue
          /\ UNCHANGED <<open_fds, transcript, pc>>
    /\ UNCHANGED <<served, server_sock, client_init_buffer, pump_locals, client, events>>
    /\ UNCHANGED <<engine, encoder>>

\* SendAll(server->peer, data, size) at position `here`: every byte is sent
\* and the handshake goes to `next`, or a send returns <= 0 and the client is
\* dropped
SendStep(here, data, next) ==
    /\ pc = here
    /\ \/ /\ transcript' = Append(transcript, Sent(data, TRUE))
          /\ pc' = next
          /\ UNCHANGED <<peer, open_fds, client_init_buffer>>
       \/ /\ transcript' = Append(transcript, Sent(data, FALSE))
          /\ ClientAbort
    /\ UNCHANGED <<served, server_sock, pump_locals, client, events>>
    /\ UNCHANGED <<engine, encoder>>

\* line 544
SendVersion == SendStep("send_version", VersionString, "recv_version")

\* lines 550-563: RecvAll of 12 bytes, then strncmp
RecvVersion ==
    /\ pc = "recv_version"
    /\ \/ \E v \in ClientVersions :
            /\ client_init_buffer' = v
            /\ transcript' = Append(transcript, Received(v, TRUE))
            /\ pc' = IF StrNEq(VersionString, v, 12) THEN "send_security" ELSE "reject_version"
            /\ UNCHANGED <<peer, open_fds>>
       \/ /\ transcript' = Append(transcript, Received(<<>>, FALSE))
          /\ ClientAbort
    /\ UNCHANGED <<served, server_sock, pump_locals, client, events>>
    /\ UNCHANGED <<engine, encoder>>

\* lines 560-562: the failure message is sent whether or not it arrives
RejectVersion ==
    /\ pc = "reject_version"
    /\ \E ok \in BOOLEAN : transcript' = Append(transcript, Sent(VersionFailure, ok))
    /\ ClientAbort
    /\ UNCHANGED <<served, server_sock, pump_locals, client, events>>
    /\ UNCHANGED <<engine, encoder>>

\* line 567
SendSecurityTypes == SendStep("send_security", SecurityTypes, "recv_security")

\* (mutant of IllegalAuthType) only the type 0 is refused
IllegalAuthTypeZero(buffer) == buffer[1] = 0

\* line 579: client_init_buffer[0] != 1
IllegalAuthType(buffer) == buffer[1] # 1

\* lines 573-586
RecvSecurityChoice ==
    /\ pc = "recv_security"
    /\ \/ \E c \in ClientSecurityChoices :
            /\ client_init_buffer' = <<c>> \o Tail(client_init_buffer)
            /\ transcript' = Append(transcript, Received(<<c>>, TRUE))
            /\ pc' = IF IllegalAuthType(<<c>> \o Tail(client_init_buffer))
                     THEN "reject_security" ELSE "send_result"
            /\ UNCHANGED <<peer, open_fds>>
       \/ /\ transcript' = Append(transcript, Received(<<>>, FALSE))
          /\ ClientAbort
    /\ UNCHANGED <<served, server_sock, pump_locals, client, events>>
    /\ UNCHANGED <<engine, encoder>>

\* lines 583-585
RejectSecurity ==
    /\ pc = "reject_security"
    /\ \E ok \in BOOLEAN : transcript' = Append(transcript, Sent(SecurityFailure, ok))
    /\ ClientAbort
    /\ UNCHANGED <<served, server_sock, pump_locals, client, events>>
    /\ UNCHANGED <<engine, encoder>>

\* (mutant of SendSecurityResult) ServerInit follows at once, the client's
\* ClientInit byte is not waited for
SendSecurityResultEarly == SendStep("send_result", SecurityOk, "send_init")

\* line 591
SendSecurityResult == SendStep("send_result", SecurityOk, "recv_shared")

\* lines 600-604: the shared flag is stored and never looked at
RecvSharedFlag ==
    /\ pc = "recv_shared"
    /\ \/ \E s \in ClientSharedFlags :
            /\ client_init_buffer' = <<s>> \o Tail(client_init_buffer)
            /\ transcript' = Append(transcript, Received(<<s>>, TRUE))
            /\ pc' = "send_init"
            /\ UNCHANGED <<peer, open_fds>>
       \/ /\ transcript' = Append(transcript, Received(<<>>, FALSE))
          /\ ClientAbort
    /\ UNCHANGED <<served, server_sock, pump_locals, client, events>>
    /\ UNCHANGED <<engine, encoder>>

\* lines 608-647: ServerInit; on success close(server_sock) and leave the loop
SendServerInit ==
    /\ pc = "send_init"
    /\ \E u \in StackGarbage :
        \/ /\ transcript' = Append(transcript, Sent(ServerInit(width, height, u), TRUE))
           /\ open_fds' = Close(open_fds, server_sock)
           /\ pc' = "init_return"
           /\ UNCHANGED <<peer, client_init_buffer>>
        \/ /\ transcript' = Append(transcript, Sent(ServerInit(width, height, u), FALSE))
           /\ ClientAbort
    /\ UNCHANGED <<served, server_sock, pump_locals, client, events>>
    /\ UNCHANGED <<engine, encoder>>

\* line 654: VNC_Init returns; its locals are gone
VNC_InitReturn ==
    /\ pc = "init_return"
    /\ pc' = "idle"
    /\ server_sock' = -1
    /\ client_init_buffer' = <<>>
    /\ transcript' = <<>>
    /\ UNCHANGED <<server, open_fds, pump_locals, client, events>>
    /\ returned' = "VNC_Init"
    /\ UNCHANGED encoder
    /\ UNCHANGED <<initialized, frames>>

VNC_Init ==
    \/ VNC_InitEnter
    \/ Accept
    \/ SendVersion
    \/ RecvVersion
    \/ RejectVersion
    \/ SendSecurityTypes
    \/ RecvSecurityChoice
    \/ RejectSecurity
    \/ SendSecurityResult
    \/ RecvSharedFlag
    \/ SendServerInit
    \/ VNC_InitReturn

(***************************************************************************)
(* 32-bit int arithmetic of the dispatcher.                                *)
(***************************************************************************)
\* (b0 << 24) | (b1 << 16) | (b2 << 8) | b3 as a 32-bit int: with b0 >= 128
\* the shift leaves the range of int and the result is the two's complement
\* value (gcc and clang define the shift that way)
Int32OfBytes(b0, b1, b2, b3) ==
    (IF b0 >= 128 THEN b0 - 256 ELSE b0) * 16777216 + b1 * 65536 + b2 * 256 + b3

\* a + b as a 32-bit int, for a >= 0: past INT_MAX the sum wraps to a
\* negative number
Add32(a, b) ==
    IF b > 0 /\ a > 2147483647 - b THEN (a - 2147483647 - 1) + (b - 2147483647 - 1) ELSE a + b

RECURSIVE BitOr(_, _)
\* a | b for a, b >= 0
BitOr(a, b) ==
    IF a = 0 THEN b
    ELSE IF b = 0 THEN a
    ELSE (IF a % 2 = 1 \/ b % 2 = 1 THEN 1 ELSE 0) + 2 * BitOr(a \div 2, b \div 2)

\* a & m for a >= 0 and m a power of two
BitAnd(a, m) == IF (a \div m) % 2 = 1 THEN m ELSE 0

(***************************************************************************)
(* Input translation (the KeyEvent case of HandleVNCMessage).              *)
(***************************************************************************)
\* doomkeys.h
KEY_RIGHTARROW == 128 + 46
KEY_LEFTARROW == 128 + 44
KEY_UPARROW == 128 + 45
KEY_DOWNARROW == 128 + 47
KEY_F1 == 128 + 59
KEY_F2 == 128 + 60
KEY_F3 == 128 + 61
KEY_F4 == 128 + 62
KEY_F5 == 128 + 63
KEY_F6 == 128 + 64
KEY_F7 == 128 + 65
KEY_F8 == 128 + 66
KEY_F9 == 128 + 67
KEY_F10 == 128 + 68
KEY_F11 == 128 + 87
KEY_F12 == 128 + 88
KEY_PAUSE == 128 + 127
KEY_RSHIFT == 128 + 54
KEY_RCTRL == 128 + 29
KEY_RALT == 128 + 56
KEY_CAPSLOCK == 128 + 58
KEY_NUMLOCK == 128 + 69
KEY_SCRLCK == 128 + 70
KEY_PRTSCR == 128 + 89
KEY_HOME == 128 + 71
KEY_END == 128 + 79
KEY_PGUP == 128 + 73
KEY_PGDN == 128 + 81
KEY_INS == 128 + 82

\* vnc_keysym_unshifted[0..127], as a sequence indexed from 1
vnc_keysym_unshifted ==
    [i \in 1..32 |-> 0] \o
    << 0, 49, 39, 51, 52, 53, 55, 0, 57, 48, 56, 61, 0, 0, 0, 0 >> \o
    [i \in 1..10 |-> 0] \o
    << 59, 0, 44, 0, 46, 47, 50 >> \o
    [i \in 1..26 |-> 96 + i] \o
    << 0, 0, 0, 54, 45, 0 >> \o
    [i \in 1..26 |-> 0] \o
    << 91, 92, 93, 96, 0 >>

\* the switch over the named keysyms: <<keysym, is_key_known>> after it
NamedKeysym(keysym, is_key_known) ==
    CASE keysym = 65307 -> <<27, TRUE>>
      [] keysym = 65288 -> <<8, TRUE>>
      [] keysym = 65289 -> <<9, TRUE>>
      [] keysym = 65293 -> <<13, TRUE>>
      [] keysym = 65535 -> <<27, TRUE>>
      [] keysym = 65470 -> <<KEY_F1, TRUE>>
      [] keysym = 65471 -> <<KEY_F2, TRUE>>
      [] keysym = 65472 -> <<KEY_F3, TRUE>>
      [] keysym = 65473 -> <<KEY_F4, TRUE>>
      [] keysym = 65474 -> <<KEY_F5, TRUE>>
      [] keysym = 65475 -> <<KEY_F6, TRUE>>
      [] keysym = 65476 -> <<KEY_F7, TRUE>>
      [] keysym = 65477 -> <<KEY_F8, TRUE>>
      [] keysym = 65478 -> <<KEY_F9, TRUE>>
      [] keysym = 65479 -> <<KEY_F10, TRUE>>
      [] keysym = 65480 -> <<KEY_F11, TRUE>>
      [] keysym = 65481 -> <<KEY_F12, TRUE>>
      [] keysym = 65361 -> <<KEY_LEFTARROW, TRUE>>
      [] keysym = 65362 -> <<KEY_UPARROW, TRUE>>
      [] keysym = 65363 -> <<KEY_RIGHTARROW, TRUE>>
      [] keysym = 65364 -> <<KEY_DOWNARROW, TRUE>>
      [] keysym = 65299 -> <<KEY_PAUSE, TRUE>>
      [] keysym \in {65505, 65506} -> <<KEY_RSHIFT, TRUE>>
      [] keysym \in {65507, 65508} -> <<KEY_RCTRL, TRUE>>
      [] keysym \in {65513, 65514} -> <<KEY_RALT, TRUE>>
      [] keysym = 65509 -> <<KEY_CAPSLOCK, TRUE>>
      [] keysym = 65300 -> <<KEY_SCRLCK, TRUE>>
      [] keysym = 65407 -> <<KEY_NUMLOCK, TRUE>>
      [] keysym = 65377 -> <<KEY_PRTSCR, TRUE>>
      [] keysym = 65360 -> <<KEY_HOME, TRUE>>
      [] keysym = 65367 -> <<KEY_END, TRUE>>
      [] keysym = 65365 -> <<KEY_PGUP, TRUE>>
      [] keysym = 65366 -> <<KEY_PGDN, TRUE>>
      [] keysym = 65379 -> <<KEY_INS, TRUE>>
      [] OTHER -> <<keysym, is_key_known>>

(***************************************************************************)
(* HandleVNCMessage: one call of the dispatcher at message_scan_pos.       *)
(* The result is the return value and what the call did: `fatal` (VNC_Exit *)
(* and I_Quit were called), `set_encoding` and `pointer` (empty, or the    *)
(* values stored), `set_send_frame`, and the events posted.                *)
(***************************************************************************)
\* client_packet is kept as the bytes up to the last one ever written; the
\* rest of the array still holds the zeros the global started with.
\* At(buf, i) is buf[i] of the C array.
At(buf, i) == IF i < Len(buf) THEN buf[i + 1] ELSE 0

KeyEv(type, d1, d2, d3) == [type |-> type, data1 |-> d1, data2 |-> d2, data3 |-> d3]

Outcome(ret) ==
    [ret |-> ret, fatal |-> FALSE, set_encoding |-> <<>>, set_send_frame |-> FALSE,
     pointer |-> <<>>, posted |-> <<>>]

\* (mutant of HandleSetPixelFormat) the true-color flag is not looked at
HandleSetPixelFormatAnyColor(buf, pos, data_left) ==
    IF data_left >= 20
    THEN IF At(buf, pos + 4) # 32
         THEN [Outcome(-1) EXCEPT !.fatal = TRUE]
         ELSE Outcome(pos + 20)
    ELSE Outcome(-1)

\* lines 145-171
HandleSetPixelFormat(buf, pos, data_left) ==
    LET px_size == At(buf, pos + 4)
        true_color == At(buf, pos + 7)
    IN  IF data_left >= 20
        THEN IF true_color = 0 \/ px_size # 32
             THEN [Outcome(-1) EXCEPT !.fatal = TRUE]
             ELSE Outcome(pos + 20)
        ELSE Outcome(-1)

\* (mutant of ContainsTight) only the first encoding of the list is looked at
ContainsTightFirst(buf, pos, i, encoding_count) ==
    /\ i < encoding_count
    /\ Int32OfBytes(At(buf, pos + 4), At(buf, pos + 5), At(buf, pos + 6), At(buf, pos + 7))
            = VNC_TIGHT

RECURSIVE ContainsTight(_, _, _, _)
\* lines 182-196: the loop over the encoding_count encodings, from the i-th;
\* it is only looked at when all of them are in the buffer
ContainsTight(buf, pos, i, encoding_count) ==
    IF i >= encoding_count THEN FALSE
    ELSE LET o == pos + 4 + 4 * i
         IN  \/ Int32OfBytes(At(buf, o), At(buf, o + 1), At(buf, o + 2), At(buf, o + 3)) = VNC_TIGHT
             \/ ContainsTight(buf, pos, i + 1, encoding_count)

\* lines 173-212
HandleSetEncodings(buf, pos, data_left) ==
    IF data_left >= 4
    THEN LET encoding_count == At(buf, pos + 2) * 256 + At(buf, pos + 3)
             expect_length == 4 + encoding_count * 4
         IN  IF data_left >= expect_length
             THEN [Outcome(pos + expect_length) EXCEPT
                     !.set_encoding =
                        IF ContainsTight(buf, pos, 0, encoding_count)
                        THEN <<VNC_TIGHT>> ELSE <<VNC_RAW>>]
             ELSE Outcome(-1)
    ELSE Outcome(-1)

\* lines 214-220
HandleUpdateRequest(pos, data_left) ==
    IF data_left >= 10
    THEN [Outcome(pos + 10) EXCEPT !.set_send_frame = TRUE]
    ELSE Outcome(-1)

\* what a read of vnc_keysym_unshifted at a negative index may give: the
\* bytes the build has placed below the table (a char each)
BelowTable == {0, 97, -128}

\* (mutant of Unshift) only the capital letters are looked up
UnshiftLetters(keysym, below) ==
    IF keysym >= 65 /\ keysym <= 90 THEN vnc_keysym_unshifted[keysym + 1] ELSE keysym

\* (mutant of Unshift) the case of a letter is switched either way
UnshiftToggle(keysym, below) ==
    IF keysym >= 97 /\ keysym <= 122 THEN keysym - 32
    ELSE IF keysym >= 0 /\ keysym <= 127 /\ vnc_keysym_unshifted[keysym + 1] # 0
    THEN vnc_keysym_unshifted[keysym + 1]
    ELSE keysym

\* lines 414-418: keysym_lowercase.  A keysym with the top bit set is a
\* negative int: it passes keysym <= 0x7f and indexes the table below its
\* start, where the read gives `below`
Unshift(keysym, below) ==
    LET entry == IF keysym >= 0 THEN vnc_keysym_unshifted[keysym + 1] ELSE below
    IN  IF keysym <= 127 /\ entry # 0 THEN entry ELSE keysym

\* lines 222-439
HandleKeyEvent(buf, pos, data_left, ti, below) ==
    LET is_keydown == At(buf, pos + 1)
        keysym0 == Int32OfBytes(At(buf, pos + 4), At(buf, pos + 5), At(buf, pos + 6), At(buf, pos + 7))
        named == NamedKeysym(keysym0, keysym0 <= 127)
        keysym == named[1]
        is_key_known == named[2]
        keysym_lowercase == Unshift(keysym, below)
    IN  IF data_left >= 8
        THEN IF ~is_key_known
             THEN Outcome(pos + 8)
             ELSE [Outcome(pos + 8) EXCEPT
                     !.posted =
                        << KeyEv(IF is_keydown # 0 THEN "ev_keydown" ELSE "ev_keyup",
                                 keysym_lowercase,
                                 IF is_keydown # 0 THEN keysym_lowercase ELSE 0,
                                 IF is_keydown # 0 /\ ti THEN keysym ELSE 0) >>]
        ELSE Outcome(-1)

\* lines 455-459
PackButtons(b) ==
    LET left_button == BitAnd(b, 1)
        right_button == BitAnd(b, 4)
        middle_button == BitAnd(b, 2)
        scroll_up == BitAnd(b, 8)
        scroll_down == BitAnd(b, 16)
    IN  BitOr(left_button,
          BitOr(right_button * 2,
            BitOr(middle_button * 4,
              BitOr(scroll_up * 8, scroll_down * 16))))

\* lines 441-465
HandlePointerEvent(buf, pos, data_left) ==
    LET x_pos == At(buf, pos + 2) * 256 + At(buf, pos + 3)
        y_pos == At(buf, pos + 4) * 256 + At(buf, pos + 5)
    IN  IF data_left >= 6
        THEN [Outcome(pos + 6) EXCEPT
                !.pointer = <<x_pos, y_pos, PackButtons(At(buf, pos + 1))>>]
        ELSE Outcome(-1)

\* (mutant of HandleClientCutText) the case always falls through to default
HandleClientCutTextDrop(buf, pos, data_left) == Outcome(-2)

\* lines 467-491: there is no break after the if, so an incomplete message
\* falls through to default
HandleClientCutText(buf, pos, data_left) ==
    IF data_left >= 8
    THEN LET encoding_count ==
                Int32OfBytes(At(buf, pos + 4), At(buf, pos + 5), At(buf, pos + 6), At(buf, pos + 7))
             expect_length == Add32(8, encoding_count)
         IN  IF data_left >= expect_length
             THEN Outcome(pos + expect_length)
             ELSE Outcome(-2)
    ELSE Outcome(-2)

\* lines 137-495
HandleVNCMessage(buf, cursor, pos, ti, below) ==
    LET data_left == cursor - pos
        type == At(buf, pos)
    IN  IF data_left = 0 THEN Outcome(-1)
        ELSE CASE type = VNC_CLIENT_SETPIXELFORMAT -> HandleSetPixelFormat(buf, pos, data_left)
               [] type = VNC_CLIENT_SETENCODINGS -> HandleSetEncodings(buf, pos, data_left)
               [] type = VNC_CLIENT_FRAMEBUFFERUPDATEREQUEST -> HandleUpdateRequest(pos, data_left)
               [] type = VNC_CLIENT_KEYEVENT -> HandleKeyEvent(buf, pos, data_left, ti, below)
               [] type = VNC_CLIENT_POINTEREVENT -> HandlePointerEvent(buf, pos, data_left)
               [] type = VNC_CLIENT_CLIENTCUTTEXT -> HandleClientCutText(buf, pos, data_left)
               [] OTHER -> Outcome(-2)

\* lines 182-196: how many encodings the loop has read when it ends: all
\* encoding_count of them, or those up to the first that is Tight
EncodingsRead(buf, pos, encoding_count) ==
    LET tight == { i \in 0..(encoding_count - 1) :
                     LET o == pos + 4 + 4 * i
                     IN  Int32OfBytes(At(buf, o), At(buf, o + 1), At(buf, o + 2), At(buf, o + 3))
                            = VNC_TIGHT }
    IN  IF tight = {} THEN encoding_count
        ELSE (CHOOSE i \in tight : \A k \in tight : i <= k) + 1

\* lines 137-495: the highest index of client_packet a call of the
\* dispatcher at pos reads, -1 when it reads none.  SetPixelFormat, KeyEvent
\* and PointerEvent read their fields ahead of the test of data_left (lines
\* 147-148, 224-229, 443-449); SetEncodings and ClientCutText read the count
\* behind the test for the fixed part, and the loop over the encodings runs
\* ahead of the test for the whole message
LastRead(buf, cursor, pos) ==
    LET data_left == cursor - pos
        type == At(buf, pos)
    IN  IF data_left = 0 THEN -1
        ELSE CASE type = VNC_CLIENT_SETPIXELFORMAT -> pos + 7
               [] type = VNC_CLIENT_SETENCODINGS ->
                    IF data_left >= 4
                    THEN pos + 3 + 4 * EncodingsRead(buf, pos, At(buf, pos + 2) * 256 + At(buf, pos + 3))
                    ELSE pos
               [] type = VNC_CLIENT_FRAMEBUFFERUPDATEREQUEST -> pos
               [] type = VNC_CLIENT_KEYEVENT -> pos + 7
               [] type = VNC_CLIENT_POINTEREVENT -> pos + 5
               [] type = VNC_CLIENT_CLIENTCUTTEXT -> IF data_left >= 8 THEN pos + 7 ELSE pos
               [] OTHER -> pos

(***************************************************************************)
(* FinalizeVNCMessages: the bytes from offset on move to the front.        *)
(***************************************************************************)
\* lines 124-132: the buffer after the memmove
Compact(buf, cursor, offset) ==
    LET leftover_size == cursor - offset
    IN  [i \in 1..Len(buf) |->
            IF i <= leftover_size THEN buf[offset + i] ELSE buf[i]]

\* line 134: the new packet_cursor
Leftover(cursor, offset) == cursor - offset

(***************************************************************************)
(* The client after the handshake: what it may write to the connection.    *)
(***************************************************************************)
MsgSetPixelFormat == <<0, 0, 0, 0, 32, 24, 0, 1, 0, 255, 0, 255, 0, 255, 16, 8, 0, 0, 0, 0>>
MsgSetPixelFormat8 == <<0, 0, 0, 0, 8, 8, 0, 0, 0, 7, 0, 7, 0, 3, 0, 3, 6, 0, 0, 0>>
MsgSetEncodingsTight == <<2, 0, 0, 2, 0, 0, 0, 0, 0, 0, 0, 7>>
MsgSetEncodingsRaw == <<2, 0, 0, 1, 0, 0, 0, 0>>
MsgUpdateRequest == <<3, 0, 0, 0, 0, 0, 1, 64, 0, 200>>
MsgKeyDownA == <<4, 1, 0, 0, 0, 0, 0, 65>>
MsgKeyUpEscape == <<4, 0, 0, 0, 0, 0, 255, 27>>
MsgPointer == <<5, 1, 0, 10, 0, 20>>
MsgCutText == <<6, 0, 0, 0, 0, 0, 0, 3, 97, 98, 99>>
\* the header of a ClientCutText of 2000 bytes, and text that fills the buffer
MsgCutTextHeader == <<6, 0, 0, 0, 0, 0, 7, 208>>
MsgText == [i \in 1..(VNC_PACKET_SIZE - 8) |-> 65]
\* a ClientCutText whose length field is 0xfffffff8
MsgCutTextNegative == <<6, 0, 0, 0, 255, 255, 255, 248>>
MsgUnknown == <<254, 1, 2>>
\* a KeyEvent whose keysym is 0xffffff41
MsgKeyDownHigh == <<4, 1, 0, 0, 255, 255, 255, 65>>

\* What one write call of the client may carry: one message or several.
SessionWrites ==
    << <<MsgSetPixelFormat>>,
       <<MsgSetPixelFormat8>>,
       <<MsgSetEncodingsTight>>,
       <<MsgSetEncodingsRaw>>,
       <<MsgUpdateRequest>>,
       <<MsgKeyDownA>>,
       <<MsgKeyUpEscape>>,
       <<MsgPointer>>,
       <<MsgCutText>>,
       <<MsgKeyDownA, MsgCutText>>,
       <<MsgSetEncodingsTight, MsgPointer, MsgUpdateRequest, MsgKeyUpEscape>>,
       <<MsgCutTextHeader, MsgText>>,
       <<MsgCutTextHeader, MsgText, MsgKeyDownA>>,
       <<MsgCutTextNegative>>,
       <<MsgUnknown>>,
       <<MsgPointer, MsgUnknown>>,
       <<MsgKeyDownHigh>>,
       <<MsgUpdateRequest, MsgUpdateRequest, MsgUpdateRequest>> >>

RECURSIVE Flatten(_)
Flatten(msgs) == IF msgs = <<>> THEN <<>> ELSE Head(msgs) \o Flatten(Tail(msgs))

\* Single messages over the values of their fields, for the dispatcher:
\* SetPixelFormat over bits-per-pixel and true-color
PixelFormatMsg(bpp, true_color) ==
    <<0, 0, 0, 0, bpp, 24, 0, true_color, 0, 255, 0, 255, 0, 255, 16, 8, 0, 0, 0, 0>>
PixelSizes == <<0, 8, 16, 31, 32, 33, 255>>
TrueColors == <<0, 1, 2, 255>>
PixelFormatWrites ==
    [i \in 1..(Len(PixelSizes) * Len(TrueColors)) |->
        << PixelFormatMsg(PixelSizes[((i - 1) \div Len(TrueColors)) + 1],
                          TrueColors[((i - 1) % Len(TrueColors)) + 1]) >>]

\* SetEncodings over lists of none, one or two encodings: 0 (Raw), 7 (Tight),
\* 0x07000000 and 0xffffff07
EncodingValues == << <<0, 0, 0, 0>>, <<0, 0, 0, 7>>, <<7, 0, 0, 0>>, <<255, 255, 255, 7>> >>
SetEncodingsMsg(list) == <<2, 0, 0, Len(list)>> \o Flatten(list)
EncodingLists ==
    LET n == Len(EncodingValues)
    IN  [i \in 1..(1 + n + n * n) |->
            IF i = 1 THEN <<>>
            ELSE IF i <= 1 + n THEN <<EncodingValues[i - 1]>>
            ELSE <<EncodingValues[((i - n - 2) \div n) + 1],
                   EncodingValues[((i - n - 2) % n) + 1]>>]
SetEncodingsWrites ==
    [i \in 1..Len(EncodingLists) |-> << SetEncodingsMsg(EncodingLists[i]) >>]
\* two SetEncodings messages in one write
PairedLists == << <<>>, <<EncodingValues[1]>>, <<EncodingValues[2]>>,
                 <<EncodingValues[1], EncodingValues[2]>>, <<EncodingValues[3]>> >>
SetEncodingsPairs ==
    [i \in 1..(Len(PairedLists) * Len(PairedLists)) |->
        << SetEncodingsMsg(PairedLists[((i - 1) \div Len(PairedLists)) + 1]),
           SetEncodingsMsg(PairedLists[((i - 1) % Len(PairedLists)) + 1]) >>]

\* KeyEvent over the down flag and the keysym
KeyMsg(down, keysym) == <<4, down, 0, 0>> \o keysym
DownFlags == <<0, 1, 255>>
PrintableKeyWrites ==
    [i \in 1..(Len(DownFlags) * 128) |->
        << KeyMsg(DownFlags[((i - 1) \div 128) + 1], <<0, 0, 0, (i - 1) % 128>>) >>]
\* keysyms above 0x7f: named ones (Escape, Delete, F1, Insert) and others,
\* up to 0xffffffff
OtherKeysyms ==
    << <<0, 0, 0, 128>>, <<0, 0, 0, 255>>, <<0, 0, 1, 0>>, <<0, 0, 254, 3>>, <<0, 0, 255, 0>>,
       <<0, 0, 255, 27>>, <<0, 0, 255, 255>>, <<0, 0, 255, 190>>, <<0, 0, 255, 99>>,
       <<0, 1, 0, 0>>, <<1, 0, 0, 65>>, <<127, 255, 255, 255>>,
       <<128, 0, 0, 0>>, <<128, 0, 0, 65>>, <<255, 255, 255, 27>>, <<255, 255, 255, 255>> >>
OtherKeyWrites ==
    [i \in 1..(2 * Len(OtherKeysyms)) |->
        << KeyMsg((i - 1) % 2, OtherKeysyms[((i - 1) \div 2) + 1]) >>]

\* PointerEvent over the button byte
PointerMsg(buttons) == <<5, buttons, 0, 10, 0, 20>>
PointerWrites == [i \in 1..256 |-> << PointerMsg(i - 1) >>]

\* the first four bytes of a SetEncodings that announces 300 encodings
LargeCountWrites == << << <<2, 0, 1, 44>> >> >>

DispatchWrites ==
    PixelFormatWrites \o SetEncodingsWrites \o SetEncodingsPairs \o PrintableKeyWrites
        \o OtherKeyWrites \o PointerWrites \o LargeCountWrites

\* Pointer and key input in one write: three moves with the left button
\* held; pointer messages before and between key messages; keys alone; a
\* keysym with the top bit set
PointerAt(buttons, x, y) == <<5, buttons, x \div 256, x % 256, y \div 256, y % 256>>
InputWrites ==
    << <<PointerAt(1, 10, 20), PointerAt(1, 12, 22), PointerAt(1, 15, 20)>>,
       <<PointerAt(1, 10, 20), MsgKeyDownA, PointerAt(4, 300, 5), MsgKeyUpEscape>>,
       <<MsgKeyDownA, MsgKeyUpEscape>>,
       <<MsgKeyDownHigh>> >>

\* ClientCutText with a text of the given length, whole
CutTextMsg(length) ==
    <<6, 0, 0, 0, 0, 0, length \div 256, length % 256>> \o [i \in 1..length |-> 65]

\* A whole ClientCutText and what follows it in one write: texts of 0 to 3
\* bytes and texts that fill the buffer, alone, before and between key,
\* pointer and request messages
CutTextWrites ==
    << <<CutTextMsg(0)>>,
       <<CutTextMsg(0), MsgKeyDownA>>,
       <<CutTextMsg(1), MsgKeyDownHigh>>,
       <<CutTextMsg(2), MsgKeyUpEscape>>,
       <<CutTextMsg(3), MsgPointer, MsgUpdateRequest>>,
       <<MsgSetEncodingsTight, CutTextMsg(2), MsgKeyUpEscape>>,
       <<CutTextMsg(1), CutTextMsg(0), MsgKeyDownA>>,
       <<CutTextMsg(VNC_PACKET_SIZE - 8)>>,
       <<CutTextMsg(VNC_PACKET_SIZE - 16), MsgKeyDownA>> >>

\* every write of the model, by index
ClientWrites == SessionWrites \o DispatchWrites \o InputWrites \o CutTextWrites

\* the indices of InputWrites in ClientWrites
InputRange ==
    (Len(SessionWrites) + Len(DispatchWrites) + 1)..
        (Len(SessionWrites) + Len(DispatchWrites) + Len(InputWrites))

\* the indices of CutTextWrites in ClientWrites
CutTextRange == (Len(ClientWrites) - Len(CutTextWrites) + 1)..Len(ClientWrites)

\* the writes made of whole, well-formed client messages that fit the buffer
WellFormedWrites ==
    ((1..11) \cup (17..Len(ClientWrites))) \ {Len(SessionWrites) + Len(DispatchWrites)}

RECURSIVE Messages(_)
\* the messages of a sequence of writes, in order
Messages(writes) ==
    IF writes = <<>> THEN <<>> ELSE ClientWrites[Head(writes)] \o Messages(Tail(writes))

\* every byte the client has written so far
Stream == Flatten(Messages(sent_msgs))
\* how many of them the server has received
ReceivedBytes == Len(Stream) - Len(wire)

\* a session of the client is a run of consecutive entries of SessionWrites,
\* from any entry on, each sent once or several times
NextWrites ==
    IF sent_msgs = <<>> THEN 1..Len(SessionWrites)
    ELSE LET last == sent_msgs[Len(sent_msgs)]
         IN  {last, (last % Len(SessionWrites)) + 1}

ClientWrite ==
    /\ pc \in {"idle", "poll"}
    /\ Len(sent_msgs) < MaxSends
    /\ \E m \in NextWrites :
        /\ sent_msgs' = Append(sent_msgs, m)
        /\ wire' = wire \o Flatten(ClientWrites[m])
    /\ UNCHANGED <<server, pc, open_fds, init_locals, pump_locals, events>>
    /\ UNCHANGED <<engine, encoder>>

\* the input a client writes is a run of consecutive entries of InputWrites,
\* from any entry on, each sent once or several times
NextInputs ==
    IF sent_msgs = <<>> THEN InputRange
    ELSE LET last == sent_msgs[Len(sent_msgs)]
         IN  {last, IF last + 1 \in InputRange THEN last + 1 ELSE last}

\* the client writes pointer and key input
ClientInput ==
    /\ pc \in {"idle", "poll"}
    /\ Len(sent_msgs) < MaxInputs
    /\ \E m \in NextInputs :
        /\ sent_msgs' = Append(sent_msgs, m)
        /\ wire' = wire \o Flatten(ClientWrites[m])
    /\ UNCHANGED <<server, pc, open_fds, init_locals, pump_locals, events>>
    /\ UNCHANGED <<engine, encoder>>

(***************************************************************************)
(* VNC_Exit and I_Quit                                                     *)
(***************************************************************************)
\* (mutant of ExitAndQuit) the peer is left open
ExitAndQuitLeak ==
    /\ palette' = NULL
    /\ server_packet' = NULL
    /\ open_fds' = open_fds
    /\ pc' = "quit"
    /\ UNCHANGED peer

\* lines 1014-1029, then I_Quit: the process is on its way out
ExitAndQuit ==
    /\ palette' = NULL
    /\ server_packet' = NULL
    /\ open_fds' = Close(open_fds, peer)
    /\ pc' = "quit"
    /\ UNCHANGED peer

(***************************************************************************)
(* VNC_PumpMessages                                                        *)
(***************************************************************************)
\* the locals as a call of VNC_PumpMessages finds them and leaves them
FreshLocals ==
    /\ new_mouse_x' = -1
    /\ new_mouse_y' = -1
    /\ mouse_buttons' = -1
    /\ old_scan_pos' = 0
    /\ message_scan_pos' = 0

\* lines 661-671
PumpEnter ==
    /\ pc = "idle"
    /\ pc' = "poll"
    /\ FreshLocals
    /\ UNCHANGED <<server, open_fds, init_locals, client, events>>
    /\ UNCHANGED <<engine, encoder>>

\* lines 680-685: select fails, the call returns at once
PumpPollError ==
    /\ pc = "poll"
    /\ pc' = "idle"
    /\ FreshLocals
    /\ UNCHANGED <<server, open_fds, init_locals, client, events>>
    /\ returned' = "VNC_PumpMessages"
    /\ UNCHANGED encoder
    /\ UNCHANGED <<initialized, frames>>

\* lines 722-733: the one mouse event of the call
MouseEvent(buttons, x, y, old_x, old_y) ==
    [type |-> "ev_mouse", data1 |-> buttons, data2 |-> x - old_x, data3 |-> y - old_y]

\* (mutant of PumpReturn) the staged pointer is posted ahead of the events
\* of the call
PumpReturnMouseFirst ==
    /\ pc = "poll"
    /\ wire = <<>>
    /\ IF new_mouse_x # -1
       THEN /\ events' = <<MouseEvent(mouse_buttons, new_mouse_x, new_mouse_y, mouse_x, mouse_y)>>
                            \o events
            /\ mouse_x' = new_mouse_x
            /\ mouse_y' = new_mouse_y
       ELSE UNCHANGED <<events, mouse_x, mouse_y>>
    /\ pc' = "idle"
    /\ FreshLocals
    /\ UNCHANGED <<peer, send_frame, client_packet, packet_cursor, text_input, encoding,
                   server_packet, palette, width, height, open_fds, init_locals, client>>
    /\ returned' = "VNC_PumpMessages"
    /\ UNCHANGED encoder
    /\ UNCHANGED <<initialized, frames>>

\* select returns 0: the loop ends, the staged pointer is posted
PumpReturn ==
    /\ pc = "poll"
    /\ wire = <<>>
    /\ IF new_mouse_x # -1
       THEN /\ events' = Append(events,
                    MouseEvent(mouse_buttons, new_mouse_x, new_mouse_y, mouse_x, mouse_y))
            /\ mouse_x' = new_mouse_x
            /\ mouse_y' = new_mouse_y
       ELSE UNCHANGED <<events, mouse_x, mouse_y>>
    /\ pc' = "idle"
    /\ FreshLocals
    /\ UNCHANGED <<peer, send_frame, client_packet, packet_cursor, text_input, encoding,
                   server_packet, palette, width, height, open_fds, init_locals, client>>
    /\ returned' = "VNC_PumpMessages"
    /\ UNCHANGED encoder
    /\ UNCHANGED <<initialized, frames>>

\* (mutant of RecvSize) the room left is not reduced by what is buffered
RecvSizeWhole(cursor) == VNC_PACKET_SIZE

\* the size argument of recv, line 689
RecvSize(cursor) == VNC_PACKET_SIZE - cursor

\* the sizes recv may return when m bytes can be taken
ChunkSizes(m) == { k \in 1..m : k >= m - MaxHold }

Min(a, b) == IF a < b THEN a ELSE b
Max(a, b) == IF a > b THEN a ELSE b

\* recv stores chunk bytes at client_packet + packet_cursor
Store(buf, cursor, data, chunk) ==
    [i \in 1..Max(Len(buf), cursor + chunk) |->
        IF i > cursor /\ i <= cursor + chunk THEN data[i - cursor] ELSE buf[i]]

\* lines 687-704: select returns 1 and recv takes a chunk.  With no room left
\* recv is asked for 0 bytes and returns 0, which is taken for a hangup.
PumpRecv ==
    /\ pc = "poll"
    /\ wire # <<>>
    /\ IF RecvSize(packet_cursor) <= 0
       THEN /\ ExitAndQuit
            /\ UNCHANGED <<client_packet, packet_cursor, wire, pump_locals>>
       ELSE \E chunk \in ChunkSizes(Min(Len(wire), RecvSize(packet_cursor))) :
            /\ client_packet' = Store(client_packet, packet_cursor, wire, chunk)
            /\ packet_cursor' = packet_cursor + chunk
            /\ wire' = SubSeq(wire, chunk + 1, Len(wire))
            /\ old_scan_pos' = 0
            /\ message_scan_pos' = 0
            /\ pc' = "scan"
            /\ UNCHANGED <<peer, palette, server_packet, open_fds,
                           new_mouse_x, new_mouse_y, mouse_buttons>>
    /\ UNCHANGED <<send_frame, text_input, encoding, mouse_x, mouse_y, width, height,
                   init_locals, sent_msgs, events>>
    /\ UNCHANGED <<engine, encoder>>

\* lines 690-699: the client has hung up or the connection failed; recv
\* returns <= 0
PumpRecvFailure ==
    /\ pc = "poll"
    /\ ExitAndQuit
    /\ UNCHANGED <<send_frame, client_packet, packet_cursor, text_input, encoding,
                   mouse_x, mouse_y, width, height, init_locals, pump_locals, client, events>>
    /\ UNCHANGED <<engine, encoder>>

\* lines 711-718: what is left of the buffer when the scan ended with ret
AfterScan(buf, cursor, ret, old) ==
    IF ret = -2
    THEN [packet |-> buf, cursor |-> cursor]
    ELSE [packet |-> Compact(buf, cursor, old), cursor |-> Leftover(cursor, old)]

\* lines 705-718: one turn of the scan loop, and what follows the loop when
\* the dispatcher returns a negative number
PumpDispatch ==
    /\ pc = "scan"
    /\ \E below \in BelowTable :
       LET h == HandleVNCMessage(client_packet, packet_cursor, message_scan_pos, text_input, below)
           rest == AfterScan(client_packet, packet_cursor, h.ret, message_scan_pos)
       IN  IF h.fatal
           THEN /\ ExitAndQuit
                /\ UNCHANGED <<send_frame, client_packet, packet_cursor, encoding,
                               pump_locals, events>>
           ELSE /\ encoding' = IF h.set_encoding # <<>> THEN h.set_encoding[1] ELSE encoding
                /\ send_frame' = (send_frame \/ h.set_send_frame)
                /\ events' = events \o h.posted
                /\ IF h.pointer # <<>>
                   THEN /\ new_mouse_x' = h.pointer[1]
                        /\ new_mouse_y' = h.pointer[2]
                        /\ mouse_buttons' = h.pointer[3]
                   ELSE UNCHANGED <<new_mouse_x, new_mouse_y, mouse_buttons>>
                /\ old_scan_pos' = message_scan_pos
                /\ message_scan_pos' = h.ret
                /\ IF h.ret >= 0
                   THEN UNCHANGED <<client_packet, packet_cursor, pc>>
                   ELSE /\ client_packet' = rest.packet
                        /\ packet_cursor' = rest.cursor
                        /\ pc' = "poll"
                /\ UNCHANGED <<peer, palette, server_packet, open_fds>>
    /\ UNCHANGED <<text_input, mouse_x, mouse_y, width, height, init_locals, client>>
    /\ UNCHANGED <<engine, encoder>>

\* the KeyEvent at pos is complete and its keysym is a negative int
ReadsBelowTable(buf, cursor, pos) ==
    /\ cursor - pos >= 8
    /\ At(buf, pos) = VNC_CLIENT_KEYEVENT
    /\ Int32OfBytes(At(buf, pos + 4), At(buf, pos + 5), At(buf, pos + 6), At(buf, pos + 7)) < 0

\* line 415: the read of vnc_keysym_unshifted[keysym] below the table hits
\* memory that is not mapped and the process is killed
PumpFault ==
    /\ pc = "scan"
    /\ ReadsBelowTable(client_packet, packet_cursor, message_scan_pos)
    /\ pc' = "crashed"
    /\ UNCHANGED <<server, open_fds, init_locals, pump_locals, client, events, engine,
                   encoder>>

VNC_PumpMessages ==
    \/ PumpEnter
    \/ PumpPollError
    \/ PumpRecv
    \/ PumpRecvFailure
    \/ PumpDispatch
    \/ PumpFault
    \/ PumpReturn

(***************************************************************************)
(* VNC_SetTextInput, VNC_PreparePalette, VNC_SendFrame, VNC_Exit           *)
(***************************************************************************)
\* lines 656-659
VNC_SetTextInput ==
    /\ pc = "idle"
    /\ \E state \in BOOLEAN : text_input' = state
    /\ returned' = "VNC_SetTextInput"
    /\ UNCHANGED encoder
    /\ UNCHANGED <<peer, send_frame, client_packet, packet_cursor, encoding, server_packet,
                   palette, mouse_x, mouse_y, width, height, pc, open_fds, init_locals,
                   pump_locals, client, events, initialized, frames>>

\* lines 736-752: the palette is allocated by the first call and filled by
\* every call
VNC_PreparePalette ==
    /\ pc = "idle"
    /\ palette' = ALLOCATED
    /\ returned' = "VNC_PreparePalette"
    /\ UNCHANGED encoder
    /\ UNCHANGED <<peer, send_frame, client_packet, packet_cursor, text_input, encoding,
                   server_packet, mouse_x, mouse_y, width, height, pc, open_fds, init_locals,
                   pump_locals, client, events, initialized, frames>>

\* one FramebufferUpdate as the client sees it: the encoding type of its
\* rectangle header (lines 766-769, 810-813) and how much of it was sent
\* ("header": the 16 bytes of the first SendAll, "all": the pixel data too)
Frame(type, sent) == [type |-> type, sent |-> sent]

\* (mutant of SendVNCFrame) send_frame is left set after the frame
SendVNCFrameKeep(type) ==
    \/ /\ frames' = Append(frames, Frame(type, "all"))
       /\ UNCHANGED <<send_frame, peer, palette, server_packet, open_fds, pc>>
    \/ /\ \E sent \in {"none", "header"} : frames' = Append(frames, Frame(type, sent))
       /\ ExitAndQuit
       /\ UNCHANGED send_frame

\* lines 754-796 and 798-986: SendAll of the header, SendAll of the pixel
\* data; when either fails, VNC_Exit and I_Quit
SendVNCFrame(type) ==
    \/ /\ frames' = Append(frames, Frame(type, "all"))
       /\ send_frame' = FALSE
       /\ UNCHANGED <<peer, palette, server_packet, open_fds, pc>>
    \/ /\ \E sent \in {"none", "header"} : frames' = Append(frames, Frame(type, sent))
       /\ ExitAndQuit
       /\ UNCHANGED send_frame

\* (mutant of VNC_SendFrame) the request is dropped when there is no palette
VNC_SendFrameDrop ==
    /\ pc = "idle"
    /\ returned' = "VNC_SendFrame"
    /\ UNCHANGED encoder
    /\ IF ~send_frame
       THEN UNCHANGED <<peer, send_frame, palette, server_packet, open_fds, pc, frames>>
       ELSE IF palette = NULL
       THEN /\ send_frame' = FALSE
            /\ UNCHANGED <<peer, palette, server_packet, open_fds, pc, frames>>
       ELSE SendVNCFrame(encoding)
    /\ UNCHANGED <<client_packet, packet_cursor, text_input, encoding, mouse_x, mouse_y,
                   width, height, init_locals, pump_locals, client, events, initialized>>

\* (mutant of VNC_SendFrame) the frame is put off whether or not there is a
\* palette
VNC_SendFrameNever ==
    /\ pc = "idle"
    /\ returned' = "VNC_SendFrame"
    /\ UNCHANGED encoder
    /\ UNCHANGED <<server, open_fds, pc, frames, init_locals, pump_locals, client, events,
                   initialized>>

\* lines 988-1012
VNC_SendFrame ==
    /\ pc = "idle"
    /\ returned' = "VNC_SendFrame"
    /\ UNCHANGED encoder
    /\ IF ~send_frame
       THEN UNCHANGED <<peer, send_frame, palette, server_packet, open_fds, pc, frames>>
       ELSE IF palette = NULL
       THEN UNCHANGED <<peer, send_frame, palette, server_packet, open_fds, pc, frames>>
       ELSE CASE encoding = VNC_RAW -> SendVNCFrame(VNC_RAW)
              [] encoding = VNC_TIGHT -> SendVNCFrame(VNC_TIGHT)
              [] OTHER -> /\ send_frame' = FALSE
                          /\ UNCHANGED <<peer, palette, server_packet, open_fds, pc, frames>>
    /\ UNCHANGED <<client_packet, packet_cursor, text_input, encoding, mouse_x, mouse_y,
                   width, height, init_locals, pump_locals, client, events, initialized>>

\* lines 1014-1029, called by the owner of the server
VNC_Exit ==
    /\ pc = "idle"
    /\ palette' = NULL
    /\ server_packet' = NULL
    /\ open_fds' = Close(open_fds, peer)
    /\ pc' = "exited"
    /\ returned' = "VNC_Exit"
    /\ UNCHANGED encoder
    /\ UNCHANGED <<peer, send_frame, client_packet, packet_cursor, text_input, encoding,
                   mouse_x, mouse_y, width, height, init_locals, pump_locals, client,
                   events, initialized, frames>>

(***************************************************************************)
(* SendRawVNCFrame and SendTightVNCFrame, statement by statement: what     *)
(* each stores in server_packet.                                           *)
(***************************************************************************)
\* frame[i], the frame being the pattern repeated
FrameAt(i) == frame[(i % Len(frame)) + 1]

\* server->palette[j]: byte j of the 768 that VNC_PreparePalette stored
PaletteAt(j) == (palette_rgb[1] * j + palette_rgb[2]) % 256

\* line 900
FrameDataSize == width * height

\* line 500: the bytes VNC_Init asks malloc for, for server_packet
ServerPacketCapacity == width * height * 32

\* lines 756-769 and 800-813: the 16 bytes of the rectangle header.  The
\* byte at offset 1 is skipped, not stored: it keeps what the buffer held
Header(type, pad) ==
    << 0, pad, 0, 1, 0, 0, 0, 0,
       (width \div 256) % 256, width % 256, (height \div 256) % 256, height % 256,
       0, 0, 0, type >>

\* what server_packet[1] may hold when the header is written: malloc's
\* memory on the first frame, later a byte of the frame sent before
PaddingBytes == {0, 1, 255}

\* VNC_SendFrame lines 1001-1009, then lines 756-769 or 800-813
EncodeHeader ==
    /\ epc = "call"
    /\ encoding \in {VNC_RAW, VNC_TIGHT}
    /\ \E pad \in PaddingBytes : written' = Header(encoding, pad)
    /\ send_offset' = 16
    /\ epc' = "header"
    /\ UNCHANGED <<server, pc, open_fds, init_locals, pump_locals, client, events, engine>>
    /\ UNCHANGED <<frame, palette_rgb, frame_i, zlib_data_left, zlib_block_capacity,
                   adler_s1, adler_s2, zlib_data_size, zlib_data_start>>

\* lines 773-778, 817-822 and 789-795, 979-985: SendAll fails, VNC_Exit and
\* I_Quit
EncodeSendFailure ==
    /\ \/ epc = "header"
       \/ epc = "raw_pixels" /\ frame_i = FrameDataSize
       \/ epc = "tight_send"
    /\ frames' = Append(frames, Frame(encoding, IF epc = "header" THEN "none" ELSE "header"))
    /\ ExitAndQuit
    /\ epc' = "failed"
    /\ UNCHANGED <<send_frame, client_packet, packet_cursor, text_input, encoding, mouse_x,
                   mouse_y, width, height, init_locals, pump_locals, client, events,
                   initialized, returned>>
    /\ UNCHANGED <<frame, palette_rgb, frame_i, send_offset, written, zlib_data_left,
                   zlib_block_capacity, adler_s1, adler_s2, zlib_data_size, zlib_data_start>>

\* lines 773 and 817 (SendAll of the header succeeds), 780 and 824
EncodeSendHeader ==
    /\ epc = "header"
    /\ epc' = IF encoding = VNC_RAW THEN "raw_pixels" ELSE "tight_palette"
    /\ send_offset' = 0
    /\ written' = <<>>
    /\ frame_i' = 0
    /\ UNCHANGED <<server, pc, open_fds, init_locals, pump_locals, client, events, engine>>
    /\ UNCHANGED <<frame, palette_rgb, zlib_data_left, zlib_block_capacity,
                   adler_s1, adler_s2, zlib_data_size, zlib_data_start>>

\* (mutant of RawPixel) the colours are stored red first
RawPixelRedFirst(index) ==
    << PaletteAt(index * 3), PaletteAt(index * 3 + 1), PaletteAt(index * 3 + 2), 0 >>

\* lines 783-786: the four bytes of one pixel
RawPixel(index) ==
    << PaletteAt(index * 3 + 2), PaletteAt(index * 3 + 1), PaletteAt(index * 3), 0 >>

\* lines 781-787: one turn of the pixel loop
RawPixelStep ==
    /\ epc = "raw_pixels"
    /\ frame_i < FrameDataSize
    /\ written' = RawPixel(FrameAt(frame_i))
    /\ send_offset' = send_offset + 4
    /\ frame_i' = frame_i + 1
    /\ UNCHANGED <<server, pc, open_fds, init_locals, pump_locals, client, events, engine>>
    /\ UNCHANGED <<frame, palette_rgb, epc, zlib_data_left, zlib_block_capacity,
                   adler_s1, adler_s2, zlib_data_size, zlib_data_start>>

\* lines 789 and 979 (SendAll of the body succeeds), then VNC_SendFrame line
\* 1011
EncodeSendBody ==
    /\ \/ epc = "raw_pixels" /\ frame_i = FrameDataSize
       \/ epc = "tight_send"
    /\ frames' = Append(frames, Frame(encoding, "all"))
    /\ send_frame' = FALSE
    /\ epc' = "sent"
    /\ returned' = "VNC_SendFrame"
    /\ UNCHANGED <<peer, client_packet, packet_cursor, text_input, encoding, server_packet,
                   palette, mouse_x, mouse_y, width, height, pc, open_fds, init_locals,
                   pump_locals, client, events, initialized>>
    /\ UNCHANGED <<frame, palette_rgb, frame_i, send_offset, written, zlib_data_left,
                   zlib_block_capacity, adler_s1, adler_s2, zlib_data_size, zlib_data_start>>

\* lines 874-890: the compression control byte, the filter, the number of
\* colours less one and the 768 bytes of the palette
TightPalette ==
    /\ epc = "tight_palette"
    /\ written' = <<64 + 1, 1, 255>> \o [j \in 1..768 |-> PaletteAt(j - 1)]
    /\ send_offset' = send_offset + 3 + 768
    /\ epc' = "tight_length"
    /\ UNCHANGED <<server, pc, open_fds, init_locals, pump_locals, client, events, engine>>
    /\ UNCHANGED <<frame, palette_rgb, frame_i, zlib_data_left, zlib_block_capacity,
                   adler_s1, adler_s2, zlib_data_size, zlib_data_start>>

\* (mutant of ZlibFrames) the blocks are counted as they are filled, 65535
\* bytes each
ZlibFramesExact(frame_data_size) == (frame_data_size + 65534) \div 65535

\* line 901: zlib_frames
ZlibFrames(frame_data_size) == (frame_data_size \div 65536) + 1

\* lines 904-918: the compact representation of zlib_data_size
CompactLength(size) ==
    IF size < 128 THEN <<size>>
    ELSE IF size < 16384 THEN <<128 + (size % 128), (size \div 128) % 128>>
    ELSE <<128 + (size % 128), 128 + ((size \div 128) % 128), (size \div 16384) % 256>>

\* lines 899-920
TightLength ==
    /\ epc = "tight_length"
    /\ zlib_data_size' = 6 + FrameDataSize + 5 * ZlibFrames(FrameDataSize)
    /\ written' = CompactLength(zlib_data_size')
    /\ send_offset' = send_offset + Len(written')
    /\ zlib_data_start' = send_offset'
    /\ epc' = "zlib_header"
    /\ UNCHANGED <<server, pc, open_fds, init_locals, pump_locals, client, events, engine>>
    /\ UNCHANGED <<frame, palette_rgb, frame_i, zlib_data_left, zlib_block_capacity,
                   adler_s1, adler_s2>>

\* lines 923-931: the two bytes of the zlib header and the locals of the loop
ZlibHeader ==
    /\ epc = "zlib_header"
    /\ adler_s1' = 1
    /\ adler_s2' = 0
    /\ written' = <<64 + 32 + 16 + 8, 1>>
    /\ send_offset' = send_offset + 2
    /\ zlib_data_left' = FrameDataSize
    /\ zlib_block_capacity' = 0
    /\ frame_i' = 0
    /\ epc' = "zlib_loop"
    /\ UNCHANGED <<server, pc, open_fds, init_locals, pump_locals, client, events, engine>>
    /\ UNCHANGED <<frame, palette_rgb, zlib_data_size, zlib_data_start>>

\* (mutant of BlockHeader) NLEN is stored as LEN
BlockHeaderSameLen(data_left) ==
    IF data_left <= 65535
    THEN <<1, data_left % 256, (data_left \div 256) % 256,
              data_left % 256, (data_left \div 256) % 256>>
    ELSE <<0, 255, 255, 0, 0>>

\* lines 934-955: the header of a stored block, final when what is left fits
\* in it (a byte takes the low eight bits of ~data_left_lo)
BlockHeader(data_left) ==
    IF data_left <= 65535
    THEN <<1, data_left % 256, (data_left \div 256) % 256,
              255 - (data_left % 256), 255 - ((data_left \div 256) % 256)>>
    ELSE <<0, 255, 255, 0, 0>>

\* (mutant of AdlerStep) the sum is not brought back below 65521
AdlerStepPlain(sum, byte) == sum + byte

\* lines 957-967: a + b brought back below 65521 by one subtraction
AdlerStep(sum, byte) == IF sum + byte >= 65521 THEN sum + byte - 65521 ELSE sum + byte

\* (mutant of Literal) the index is sent with its top bit cleared
LiteralLow(index) == index % 128

\* line 969: the palette index goes out as it is
Literal(index) == index

\* lines 932-972: one turn of the loop over the frame
ZlibByte ==
    /\ epc = "zlib_loop"
    /\ frame_i < FrameDataSize
    /\ written' = (IF zlib_block_capacity = 0 THEN BlockHeader(zlib_data_left) ELSE <<>>)
                    \o <<Literal(FrameAt(frame_i))>>
    /\ send_offset' = send_offset + Len(written')
    /\ adler_s1' = AdlerStep(adler_s1, FrameAt(frame_i))
    /\ adler_s2' = AdlerStep(adler_s2, adler_s1')
    /\ zlib_block_capacity' = (IF zlib_block_capacity = 0 THEN 65535 ELSE zlib_block_capacity) - 1
    /\ zlib_data_left' = zlib_data_left - 1
    /\ frame_i' = frame_i + 1
    /\ UNCHANGED <<server, pc, open_fds, init_locals, pump_locals, client, events, engine>>
    /\ UNCHANGED <<frame, palette_rgb, epc, zlib_data_size, zlib_data_start>>

\* (mutant of Trailer) s1 goes out before s2
TrailerSwapped(s1, s2) ==
    <<(s1 \div 256) % 256, s1 % 256, (s2 \div 256) % 256, s2 % 256>>

\* lines 974-977: the checksum, s2 then s1, the high byte first
Trailer(s1, s2) ==
    <<(s2 \div 256) % 256, s2 % 256, (s1 \div 256) % 256, s1 % 256>>

\* lines 974-977
TightTrailer ==
    /\ epc = "zlib_loop"
    /\ frame_i = FrameDataSize
    /\ written' = Trailer(adler_s1, adler_s2)
    /\ send_offset' = send_offset + 4
    /\ epc' = "tight_send"
    /\ UNCHANGED <<server, pc, open_fds, init_locals, pump_locals, client, events, engine>>
    /\ UNCHANGED <<frame, palette_rgb, frame_i, zlib_data_left, zlib_block_capacity,
                   adler_s1, adler_s2, zlib_data_size, zlib_data_start>>

\* The frames, palettes and framebuffer sizes the encoders are run on
Patterns == { <<0>>, <<255>>, <<0, 1>>, <<1, 0>>, <<255, 128, 7>>, <<3, 200, 17, 255, 0>> }
Palettes == { <<1, 0>>, <<7, 3>> }
SmallDimensions == { <<1, 1>>, <<2, 1>>, <<1, 3>>, <<2, 2>>, <<5, 5>>, <<13, 2>>, <<300, 1>> }

\* <<width, height, frame, palette, encoding>>: every small framebuffer with
\* every pattern in both encodings; the framebuffer of the game; and for
\* Tight a frame of 65535 bytes, one of 65536 and one of 196606
EncoderInputs ==
    { <<d[1], d[2], f, p, e>> :
        d \in SmallDimensions, f \in Patterns, p \in Palettes, e \in {VNC_RAW, VNC_TIGHT} }
    \cup { <<320, 200, <<3, 200, 17, 255, 0>>, <<7, 3>>, e>> : e \in {VNC_RAW, VNC_TIGHT} }
    \cup { <<d[1], d[2], <<255>>, <<7, 3>>, VNC_TIGHT>> :
             d \in { <<255, 257>>, <<256, 256>>, <<394, 499>> } }

\* the state VNC_SendFrame is called in with a request pending, after the
\* handshake and VNC_PreparePalette
EncoderInit ==
    /\ peer = 3 /\ send_frame = TRUE /\ client_packet = <<>>
    /\ packet_cursor = 0 /\ text_input = FALSE
    /\ server_packet = ALLOCATED /\ palette = ALLOCATED
    /\ mouse_x = 0 /\ mouse_y = 0
    /\ pc = "idle"
    /\ open_fds = {0, 1, 2, 3}
    /\ server_sock = -1 /\ client_init_buffer = <<>> /\ transcript = <<>>
    /\ new_mouse_x = -1 /\ new_mouse_y = -1 /\ mouse_buttons = -1
    /\ old_scan_pos = 0 /\ message_scan_pos = 0
    /\ sent_msgs = <<>> /\ wire = <<>>
    /\ events = <<>>
    /\ initialized = TRUE /\ frames = <<>> /\ returned = "VNC_PumpMessages"
    /\ \E in \in EncoderInputs :
        /\ width = in[1] /\ height = in[2]
        /\ frame = in[3] /\ palette_rgb = in[4]
        /\ encoding = in[5]
    /\ epc = "call"
    /\ frame_i = 0 /\ send_offset = 0 /\ written = <<>>
    /\ zlib_data_left = 0 /\ zlib_block_capacity = 0
    /\ adler_s1 = 0 /\ adler_s2 = 0 /\ zlib_data_size = 0 /\ zlib_data_start = 0

NextEncoder ==
    \/ EncodeHeader
    \/ EncodeSendHeader
    \/ EncodeSendFailure
    \/ RawPixelStep
    \/ EncodeSendBody
    \/ TightPalette
    \/ TightLength
    \/ ZlibHeader
    \/ ZlibByte
    \/ TightTrailer

EncoderSpec == EncoderInit /\ [][NextEncoder]_vars

(***************************************************************************)
(* i_video.c: the engine's calls.                                          *)
(***************************************************************************)
\* I_InitGraphics after VNC_Init has returned (lines 457-468): I_SetPalette
\* and VNC_PreparePalette, then initialized = true
I_InitGraphics ==
    /\ pc = "idle"
    /\ ~initialized
    /\ returned = "VNC_Init"
    /\ palette' = ALLOCATED
    /\ initialized' = TRUE
    /\ returned' = "VNC_PreparePalette"
    /\ UNCHANGED encoder
    /\ UNCHANGED <<peer, send_frame, client_packet, packet_cursor, text_input, encoding,
                   server_packet, mouse_x, mouse_y, width, height, pc, open_fds, init_locals,
                   pump_locals, client, events, frames>>

\* I_StartTic and I_GetEvent (lines 262-276): VNC_PumpMessages is called once
\* initialized is set
I_GetEvent == (pc = "idle" => initialized) /\ VNC_PumpMessages

\* lines 306-337
I_FinishUpdate == initialized /\ VNC_SendFrame

\* lines 352-362
I_SetPalette == initialized /\ VNC_PreparePalette

\* lines 234-243, registered with I_AtExit (line 468): it runs when the
\* process exits, be it the player who quits or I_Quit called by the core
I_ShutdownGraphics ==
    /\ pc \in {"idle", "quit"}
    /\ pc = "idle" => initialized
    /\ IF initialized
       THEN /\ palette' = NULL
            /\ server_packet' = NULL
            /\ open_fds' = Close(open_fds, peer)
            /\ initialized' = FALSE
            /\ returned' = "VNC_Exit"
       ELSE UNCHANGED <<palette, server_packet, open_fds, initialized, returned>>
    /\ pc' = "exited"
    /\ UNCHANGED <<peer, send_frame, client_packet, packet_cursor, text_input, encoding,
                   mouse_x, mouse_y, width, height, init_locals, pump_locals, client,
                   events, frames>>
    /\ UNCHANGED encoder

\* lines 272-280: I_StartTic called at any time.  Before I_InitGraphics and
\* after I_ShutdownGraphics it returns at once
I_StartTic ==
    IF initialized
    THEN I_GetEvent
    ELSE /\ pc = "start"
         /\ returned' = "I_StartTic"
         /\ UNCHANGED <<server, pc, open_fds, init_locals, pump_locals, client, events,
                        initialized, frames, encoder>>

\* lines 312-313: I_FinishUpdate called while initialized is not set
I_FinishUpdateEarly ==
    /\ pc = "start"
    /\ ~initialized
    /\ returned' = "I_FinishUpdate"
    /\ UNCHANGED <<server, pc, open_fds, init_locals, pump_locals, client, events,
                   initialized, frames, encoder>>

\* (mutant of I_ShutdownGraphicsCall) initialized is left set
I_ShutdownGraphicsKeep ==
    /\ pc \in {"start", "idle"}
    /\ pc = "idle" => initialized
    /\ IF initialized
       THEN /\ palette' = NULL
            /\ server_packet' = NULL
            /\ open_fds' = Close(open_fds, peer)
            /\ UNCHANGED initialized
            /\ returned' = "VNC_Exit"
       ELSE /\ returned' = "I_ShutdownGraphics"
            /\ UNCHANGED <<palette, server_packet, open_fds, initialized>>
    /\ pc' = "start"
    /\ UNCHANGED <<peer, send_frame, client_packet, packet_cursor, text_input, encoding,
                   mouse_x, mouse_y, width, height, init_locals, pump_locals, client,
                   events, frames>>
    /\ UNCHANGED encoder

\* lines 234-243: I_ShutdownGraphics called by the engine while the process
\* goes on; the engine is then where it was before I_InitGraphics
I_ShutdownGraphicsCall ==
    /\ pc \in {"start", "idle"}
    /\ pc = "idle" => initialized
    /\ IF initialized
       THEN /\ palette' = NULL
            /\ server_packet' = NULL
            /\ open_fds' = Close(open_fds, peer)
            /\ initialized' = FALSE
            /\ returned' = "VNC_Exit"
       ELSE /\ returned' = "I_ShutdownGraphics"
            /\ UNCHANGED <<palette, server_packet, open_fds, initialized>>
    /\ pc' = "start"
    /\ UNCHANGED <<peer, send_frame, client_packet, packet_cursor, text_input, encoding,
                   mouse_x, mouse_y, width, height, init_locals, pump_locals, client,
                   events, frames>>
    /\ UNCHANGED encoder

Next ==
    \/ VNC_Init
    \/ I_InitGraphics
    \/ ClientWrite
    \/ I_GetEvent
    \/ I_FinishUpdate
    \/ I_SetPalette
    \/ I_ShutdownGraphics

Spec == Init /\ [][Next]_vars

\* the engine thread runs: a call of VNC_PumpMessages that can take a step
\* takes one
FairSpec == Spec /\ WF_vars(I_GetEvent)

\* the program while select does not fail, up to the first I_FinishUpdate
NextPolled ==
    \/ VNC_Init
    \/ I_InitGraphics
    \/ ClientWrite
    \/ (pc = "idle" => initialized) /\ PumpEnter
    \/ PumpRecv
    \/ PumpRecvFailure
    \/ PumpDispatch
    \/ PumpFault
    \/ PumpReturn

PolledSpec == Init /\ [][NextPolled]_vars

\* the core under a caller other than i_video.c: once VNC_Init has returned
\* its functions are called in any order
NextCore ==
    \/ VNC_Init
    \/ ClientWrite
    \/ VNC_PumpMessages
    \/ VNC_PreparePalette
    \/ VNC_SendFrame
    \/ VNC_Exit

CoreSpec == Init /\ [][NextCore]_vars

\* The dispatcher over the values of the fields of a message: the program
\* after I_InitGraphics, when the client has made one of DispatchWrites
DispatchInit ==
    /\ peer = 3 /\ send_frame = FALSE /\ client_packet = <<>>
    /\ packet_cursor = 0 /\ text_input = FALSE /\ encoding = VNC_RAW
    /\ server_packet = ALLOCATED /\ palette = ALLOCATED
    /\ mouse_x = 0 /\ mouse_y = 0
    /\ \E d \in Dimensions : width = d[1] /\ height = d[2]
    /\ pc = "idle"
    /\ open_fds = {0, 1, 2, 3}
    /\ server_sock = -1 /\ client_init_buffer = <<>> /\ transcript = <<>>
    /\ new_mouse_x = -1 /\ new_mouse_y = -1 /\ mouse_buttons = -1
    /\ old_scan_pos = 0 /\ message_scan_pos = 0
    /\ \E m \in (Len(SessionWrites) + 1)..(Len(SessionWrites) + Len(DispatchWrites)) :
        /\ sent_msgs = <<m>>
        /\ wire = Flatten(ClientWrites[m])
    /\ events = <<>>
    /\ initialized = TRUE /\ frames = <<>> /\ returned = "VNC_PreparePalette"
    /\ EncoderAtRest

NextDispatch ==
    \/ VNC_SetTextInput
    \/ VNC_PumpMessages

DispatchSpec == DispatchInit /\ [][NextDispatch]_vars

\* The pump alone on a stream of pointer and key input, from the state the
\* handshake and the first palette leave
InputInit ==
    /\ peer = 3 /\ send_frame = FALSE /\ client_packet = <<>>
    /\ packet_cursor = 0 /\ text_input = FALSE /\ encoding = VNC_RAW
    /\ server_packet = ALLOCATED /\ palette = ALLOCATED
    /\ mouse_x = 0 /\ mouse_y = 0
    /\ \E d \in Dimensions : width = d[1] /\ height = d[2]
    /\ pc = "idle"
    /\ open_fds = {0, 1, 2, 3}
    /\ server_sock = -1 /\ client_init_buffer = <<>> /\ transcript = <<>>
    /\ new_mouse_x = -1 /\ new_mouse_y = -1 /\ mouse_buttons = -1
    /\ old_scan_pos = 0 /\ message_scan_pos = 0
    /\ sent_msgs = <<>> /\ wire = <<>>
    /\ events = <<>>
    /\ initialized = TRUE /\ frames = <<>> /\ returned = "VNC_PreparePalette"
    /\ EncoderAtRest

NextInput ==
    \/ ClientInput
    \/ VNC_PumpMessages

InputSpec == InputInit /\ [][NextInput]_vars

\* line 740: the bytes malloc is asked for when the palette is allocated;
\* width and height are those VNC_Init stored and do not change while the
\* palette lives
PaletteCapacity == IF palette = NULL THEN 0 ELSE width * height * 3

\* lines 745-751: 256 turns of the loop, three bytes stored by each, from
\* offset 0
PaletteBytesWritten == 256 * 3

\* the widths and heights VNC_Init is called with here: the small ones, those
\* around 256 pixels, and the one of i_video.c
PaletteDimensions ==
    { <<w, h>> : w \in 1..18, h \in 1..18 }
        \cup { <<255, 1>>, <<1, 255>>, <<256, 1>>, <<1, 256>>, <<16, 16>>, <<17, 15>>,
               <<257, 1>>, <<320, 200>> }

\* the state VNC_Init(server, width, height) leaves when a client has been
\* accepted and the handshake is done (lines 499-507, 526-640)
PaletteInit ==
    /\ peer = 3 /\ send_frame = FALSE /\ client_packet = <<>>
    /\ packet_cursor = 0 /\ text_input = FALSE /\ encoding = VNC_RAW
    /\ server_packet = ALLOCATED /\ palette = NULL
    /\ mouse_x = 0 /\ mouse_y = 0
    /\ \E d \in PaletteDimensions : width = d[1] /\ height = d[2]
    /\ pc = "idle"
    /\ open_fds = {0, 1, 2, 3}
    /\ server_sock = -1 /\ client_init_buffer = <<>> /\ transcript = <<>>
    /\ new_mouse_x = -1 /\ new_mouse_y = -1 /\ mouse_buttons = -1
    /\ old_scan_pos = 0 /\ message_scan_pos = 0
    /\ sent_msgs = <<>> /\ wire = <<>>
    /\ events = <<>>
    /\ initialized = FALSE /\ frames = <<>> /\ returned = "VNC_Init"
    /\ EncoderAtRest

NextPalette ==
    \/ VNC_PreparePalette
    \/ VNC_Exit

PaletteSpec == PaletteInit /\ [][NextPalette]_vars

\* The pump on a whole ClientCutText and the messages behind it, from the
\* state the handshake and the first palette leave, when the client has made
\* one of CutTextWrites
CutTextInit ==
    /\ peer = 3 /\ send_frame = FALSE /\ client_packet = <<>>
    /\ packet_cursor = 0 /\ text_input = FALSE /\ encoding = VNC_RAW
    /\ server_packet = ALLOCATED /\ palette = ALLOCATED
    /\ mouse_x = 0 /\ mouse_y = 0
    /\ \E d \in Dimensions : width = d[1] /\ height = d[2]
    /\ pc = "idle"
    /\ open_fds = {0, 1, 2, 3}
    /\ server_sock = -1 /\ client_init_buffer = <<>> /\ transcript = <<>>
    /\ new_mouse_x = -1 /\ new_mouse_y = -1 /\ mouse_buttons = -1
    /\ old_scan_pos = 0 /\ message_scan_pos = 0
    /\ \E m \in CutTextRange :
        /\ sent_msgs = <<m>>
        /\ wire = Flatten(ClientWrites[m])
    /\ events = <<>>
    /\ initialized = TRUE /\ frames = <<>> /\ returned = "VNC_PreparePalette"
    /\ EncoderAtRest

NextCutText == VNC_PumpMessages

CutTextSpec == CutTextInit /\ [][NextCutText]_vars

\* the engine makes its calls in any order, before I_InitGraphics and after
\* I_ShutdownGraphics too
NextEngine ==
    \/ VNC_Init
    \/ I_InitGraphics
    \/ ClientWrite
    \/ I_StartTic
    \/ I_FinishUpdate
    \/ I_FinishUpdateEarly
    \/ I_SetPalette
    \/ I_ShutdownGraphicsCall
    \/ I_ShutdownGraphics

EngineSpec == Init /\ [][NextEngine]_vars

(***************************************************************************)
(* The handshake, as properties of the transcript.                         *)
(***************************************************************************)
InHandshake ==
    pc \in {"accept", "send_version", "recv_version", "reject_version", "send_security",
            "recv_security", "reject_security", "send_result", "recv_shared", "send_init"}

\* descriptors of accepted clients that are open
PeerFds == open_fds \ ({0, 1, 2} \cup {server_sock})

AllOk(t) == \A i \in 1..Len(t) : t[i].ok

\* C1: VNC_Init returns only after one accepted client went through the whole
\* handshake: it answered "RFB 003.008\n" and security type 1 and all seven
\* transfers succeeded.  At the return peer is an open descriptor, the
\* listening socket is closed, and nothing of the server state holds the
\* shared flag: the fields are the ones VNC_Init started with.
C1_InitReturnsAfterHandshake ==
    pc = "init_return" =>
        /\ Len(transcript) = 7
        /\ AllOk(transcript)
        /\ transcript[2] = Received(VersionString, TRUE)
        /\ transcript[4] = Received(<<1>>, TRUE)
        /\ transcript[6].dir = "recv" /\ transcript[6].data \in {<<f>> : f \in ClientSharedFlags}
        /\ peer # -1
        /\ peer \in open_fds
        /\ server_sock \notin open_fds
        /\ PeerFds = {peer}
        /\ send_frame = FALSE /\ encoding = VNC_RAW /\ text_input = FALSE
        /\ mouse_x = 0 /\ mouse_y = 0 /\ palette = NULL
        /\ <<width, height>> \in Dimensions

\* C1 witness: VNC_Init returns for a client that set the shared flag
C1_Witness ==
    /\ pc = "init_return"
    /\ transcript[6].data = <<1>>

\* the transfers of a successful handshake: direction and size
HandshakePattern ==
    << <<"send", 12>>, <<"recv", 12>>, <<"send", 2>>, <<"recv", 1>>,
       <<"send", 4>>, <<"recv", 1>>, <<"send", 28>> >>

\* C2: in a successful handshake the server sends the version string, 01 01,
\* four zero bytes and the 28-byte ServerInit (width, height, name "DOOM") in
\* this order, each after the client's 12-, 1- and 1-byte reply was received
\* in full; and at any time a send that follows another transfer follows a
\* receive that succeeded.
C2_HandshakeOrder ==
    /\ \A i \in 2..Len(transcript) :
          transcript[i].dir = "send" =>
              transcript[i - 1].dir = "recv" /\ transcript[i - 1].ok
    /\ pc = "init_return" =>
        /\ Len(transcript) = 7
        /\ \A i \in 1..7 :
              /\ transcript[i].ok
              /\ transcript[i].dir = HandshakePattern[i][1]
              /\ Len(transcript[i].data) = HandshakePattern[i][2]
        /\ transcript[1].data = VersionString
        /\ transcript[3].data = <<1, 1>>
        /\ transcript[5].data = <<0, 0, 0, 0>>
        /\ LET si == transcript[7].data
           IN  /\ si[1] * 256 + si[2] = width
               /\ si[3] * 256 + si[4] = height
               /\ SubSeq(si, 21, 24) = <<0, 0, 0, 4>>
               /\ SubSeq(si, 25, 28) = <<68, 79, 79, 77>>

\* C2 witness: a handshake has run to its end
C2_Witness ==
    /\ pc = "init_return"
    /\ Len(transcript) = 7
    /\ transcript[7].dir = "send"

\* the attempt the transcript shows has failed
FailedAttempt ==
    /\ transcript # <<>>
    /\ \/ ~transcript[Len(transcript)].ok
       \/ transcript[Len(transcript)].data \in {VersionFailure, SecurityFailure}

\* C3: a handshake step that fails closes the peer, sets peer to -1, leaves
\* the listening socket open and leads back to accept (as a failed accept
\* does); during VNC_Init at most one peer descriptor is open; and no step of
\* the accept loop changes send_frame, encoding, text_input, mouse_x, mouse_y,
\* width or height.
C3_FailedAttempts ==
    /\ [](InHandshake =>
            /\ Cardinality(PeerFds) <= 1
            /\ PeerFds = IF peer = -1 THEN {} ELSE {peer}
            /\ (pc = "accept" => peer = -1)
            /\ (server_sock # -1 => server_sock \in open_fds)
            /\ (FailedAttempt => pc = "accept"))
    /\ [][InHandshake =>
            UNCHANGED <<send_frame, encoding, text_input, mouse_x, mouse_y, width, height>>]_vars

\* C3 witness: back at accept after an attempt that failed
C3_Witness ==
    /\ pc = "accept"
    /\ FailedAttempt
    /\ server_sock \in open_fds

BadVersion ==
    /\ Len(transcript) >= 2
    /\ transcript[2].ok
    /\ transcript[2].data # VersionString

BadSecurityChoice ==
    /\ Len(transcript) >= 4
    /\ transcript[4].ok
    /\ transcript[4].data # <<1>>

\* C4: a client that answers another version than "RFB 003.008\n", or picks
\* a security type other than 1, gets the failure message (a zero count and a
\* reason; SecurityResult 1 and a reason) as the last thing sent to it and is
\* dropped: no SecurityResult ok, no ServerInit, no serving.
C4_Rejection ==
    /\ BadVersion =>
        /\ pc \in {"reject_version", "accept"}
        /\ pc = "reject_version" => Len(transcript) = 2
        /\ pc = "accept" =>
            /\ Len(transcript) = 3
            /\ transcript[3].dir = "send"
            /\ transcript[3].data = VersionFailure
            /\ VersionFailure[1] = 0
            /\ peer = -1
            /\ PeerFds = {}
    /\ BadSecurityChoice =>
        /\ pc \in {"reject_security", "accept"}
        /\ pc = "reject_security" => Len(transcript) = 4
        /\ pc = "accept" =>
            /\ Len(transcript) = 5
            /\ transcript[5].dir = "send"
            /\ transcript[5].data = SecurityFailure
            /\ SubSeq(SecurityFailure, 1, 4) = <<0, 0, 0, 1>>
            /\ peer = -1
            /\ PeerFds = {}

\* C4 witness: a client was dropped for its security choice
C4_Witness ==
    /\ pc = "accept"
    /\ BadSecurityChoice
    /\ Len(transcript) = 5

(***************************************************************************)
(* The receive buffer.                                                     *)
(***************************************************************************)
\* C5: 0 <= packet_cursor <= VNC_PACKET_SIZE when VNC_PumpMessages is entered
\* and when it returns (and between), and nothing is stored past the end of
\* client_packet.
C5_CursorInRange ==
    /\ 0 <= packet_cursor
    /\ packet_cursor <= VNC_PACKET_SIZE
    /\ Len(client_packet) <= VNC_PACKET_SIZE

\* C5 witness: VNC_PumpMessages has returned with the buffer full
C5_Witness ==
    /\ pc = "idle"
    /\ packet_cursor = VNC_PACKET_SIZE
    /\ wire = <<>>

(***************************************************************************)
(* The client's stream and its messages.                                   *)
(***************************************************************************)
WellFormedStream == \A i \in 1..Len(sent_msgs) : sent_msgs[i] \in WellFormedWrites

RECURSIVE Offsets(_, _)
\* where each message of msgs starts, the first one starting at off
Offsets(msgs, off) ==
    IF msgs = <<>> THEN <<>>
    ELSE <<off>> \o Offsets(Tail(msgs), off + Len(Head(msgs)))

\* the dispatcher is about to be called on the bytes of the buffer from
\* message_scan_pos on
Dispatching == pc = "scan"
DataLeft == packet_cursor - message_scan_pos
TypeAtScan == At(client_packet, message_scan_pos)
Dispatched(below) ==
    HandleVNCMessage(client_packet, packet_cursor, message_scan_pos, text_input, below)

\* C6: at rest the buffer holds a proper prefix of the one message that is
\* next to be parsed: it starts where a message of the stream starts, and
\* that message is longer than what is buffered.
C6_BufferIsPrefixOfNextMessage ==
    (pc = "idle" /\ WellFormedStream) =>
        LET start == ReceivedBytes - packet_cursor
            msgs == Messages(sent_msgs)
            offs == Offsets(msgs, 0)
        IN  /\ start >= 0
            /\ SubSeq(client_packet, 1, packet_cursor) = SubSeq(Stream, start + 1, ReceivedBytes)
            /\ \/ packet_cursor = 0
               \/ \E k \in 1..Len(msgs) : offs[k] = start /\ packet_cursor < Len(msgs[k])

RecognizedTypes ==
    {VNC_CLIENT_SETPIXELFORMAT, VNC_CLIENT_SETENCODINGS, VNC_CLIENT_FRAMEBUFFERUPDATEREQUEST,
     VNC_CLIENT_KEYEVENT, VNC_CLIENT_POINTEREVENT, VNC_CLIENT_CLIENTCUTTEXT}

\* C7: when the byte at the scan position is no message type and the
\* dispatcher returns -2, the whole buffer is dropped (packet_cursor = 0), no
\* event is posted and the call goes on polling.
C7_UnknownTypeDropsBuffer ==
    [][(Dispatching /\ DataLeft > 0 /\ TypeAtScan \notin RecognizedTypes) =>
          /\ \A below \in BelowTable : Dispatched(below).ret = -2
          /\ packet_cursor' = 0
          /\ events' = events
          /\ pc' = "poll"]_vars

RECURSIVE ScanAll(_, _, _, _, _, _)
\* the scan loop over a buffer that holds the whole stream: what it has
\* posted and stored when the dispatcher returns a negative number
ScanAll(buf, cursor, pos, ti, below, acc) ==
    LET h == HandleVNCMessage(buf, cursor, pos, ti, below)
        next == [keys |-> acc.keys \o h.posted,
                 encoding |-> IF h.set_encoding # <<>> THEN h.set_encoding[1] ELSE acc.encoding,
                 send_frame |-> (acc.send_frame \/ h.set_send_frame),
                 pointer |-> IF h.pointer # <<>> THEN h.pointer ELSE acc.pointer]
    IN  IF h.fatal \/ h.ret < 0 THEN next ELSE ScanAll(buf, cursor, h.ret, ti, below, next)

\* the stream received by one recv into the empty buffer of a server that has
\* just left VNC_Init
SingleChunk(below) ==
    ScanAll(Stream, Len(Stream), 0, text_input, below,
            [keys |-> <<>>, encoding |-> VNC_RAW, send_frame |-> FALSE, pointer |-> <<>>])

IsKeyEvent(e) == e.type \in {"ev_keydown", "ev_keyup"}

\* C8: when a stream of well-formed messages has been received, in whatever
\* chunks, the key events posted and encoding, send_frame, mouse_x, mouse_y
\* are what the stream gives when it arrives in a single chunk.
C8_SplitInvariance ==
    (pc = "idle" /\ wire = <<>> /\ sent_msgs # <<>> /\ WellFormedStream
        /\ Len(Stream) <= VNC_PACKET_SIZE) =>
        \E below \in BelowTable :
        LET one == SingleChunk(below)
        IN  /\ SelectSeq(events, IsKeyEvent) = one.keys
            /\ encoding = one.encoding
            /\ send_frame = one.send_frame
            /\ <<mouse_x, mouse_y>> =
                  IF one.pointer = <<>> THEN <<0, 0>> ELSE <<one.pointer[1], one.pointer[2]>>

\* the message at the scan position is of a recognized type and not all of
\* it is in the buffer (lengths as the protocol gives them; a ClientCutText
\* length with the top bit set is larger than any buffer)
IncompleteAtScan ==
    /\ DataLeft > 0
    /\ LET b(i) == At(client_packet, message_scan_pos + i)
       IN  CASE TypeAtScan = VNC_CLIENT_SETPIXELFORMAT -> DataLeft < 20
             [] TypeAtScan = VNC_CLIENT_SETENCODINGS ->
                    DataLeft < 4 \/ DataLeft < 4 + 4 * (b(2) * 256 + b(3))
             [] TypeAtScan = VNC_CLIENT_FRAMEBUFFERUPDATEREQUEST -> DataLeft < 10
             [] TypeAtScan = VNC_CLIENT_KEYEVENT -> DataLeft < 8
             [] TypeAtScan = VNC_CLIENT_POINTEREVENT -> DataLeft < 6
             [] TypeAtScan = VNC_CLIENT_CLIENTCUTTEXT ->
                    \/ DataLeft < 8
                    \/ b(4) >= 128
                    \/ DataLeft - 8 < b(4) * 16777216 + b(5) * 65536 + b(6) * 256 + b(7)
             [] OTHER -> FALSE

\* C9: on an incomplete message of any of the six types the dispatcher
\* returns -1 and does nothing, and the bytes from the scan position on are
\* moved to the front of the buffer and kept.
C9_IncompleteIsKept ==
    [][(Dispatching /\ IncompleteAtScan) =>
          /\ \A below \in BelowTable : Dispatched(below).ret = -1 /\ ~Dispatched(below).fatal
          /\ pc' = "poll"
          /\ packet_cursor' = DataLeft
          /\ SubSeq(client_packet', 1, DataLeft)
                = SubSeq(client_packet, message_scan_pos + 1, packet_cursor)
          /\ UNCHANGED <<events, encoding, send_frame, new_mouse_x, new_mouse_y, mouse_buttons>>]_vars

\* C10: every call of VNC_PumpMessages returns (or ends the process): the
\* dispatcher is called finitely often on the bytes received.
C10_PumpTerminates ==
    (pc \in {"poll", "scan"}) ~> (pc \in {"idle", "quit", "crashed"})

(***************************************************************************)
(* After the handshake: failures, frames, input translation.               *)
(***************************************************************************)
\* the process has been told to exit, or has exited
Terminal == pc \in {"quit", "exited"}

LastFrame(fs) == fs[Len(fs)]

\* this step is a call of VNC_SendFrame in which a send failed
SendFailed == Len(frames') > Len(frames) /\ LastFrame(frames').sent # "all"

\* C11: a recv of VNC_PumpMessages or a send of VNC_SendFrame that fails
\* closes the peer and has I_Quit called; from then on no connection is
\* accepted, nothing is received, no frame is sent and no event is posted.
C11_FailureIsTerminal ==
    /\ [][SendFailed => pc' = "quit"]_vars
    /\ [][(pc \in {"idle", "poll"} /\ pc' = "quit") =>
            (peer \notin open_fds' /\ PeerFds' = {})]_vars
    /\ [][Terminal =>
            /\ Terminal'
            /\ open_fds' \subseteq open_fds
            /\ UNCHANGED <<frames, events, client_packet, packet_cursor, wire>>]_vars

C11_Witness ==
    /\ pc = "exited"
    /\ frames # <<>>
    /\ LastFrame(frames).sent = "header"
    /\ peer \notin open_fds

\* C12: once VNC_Exit has run, by I_ShutdownGraphics or after a failed recv
\* or send, peer is -1.
C12_PeerAbsentIsMinusOne ==
    Terminal => peer = -1

\* C13: a complete SetPixelFormat with byte 4 = 32 and byte 7 non-zero moves
\* the scan on by 20 bytes and changes nothing of the server; any other
\* complete SetPixelFormat closes the peer and has I_Quit called.
C13_PixelFormat ==
    [][(Dispatching /\ TypeAtScan = VNC_CLIENT_SETPIXELFORMAT /\ DataLeft >= 20) =>
          IF At(client_packet, message_scan_pos + 4) = 32
                /\ At(client_packet, message_scan_pos + 7) # 0
          THEN /\ message_scan_pos' = message_scan_pos + 20
               /\ pc' = "scan"
               /\ UNCHANGED <<server, open_fds, events, frames>>
          ELSE /\ pc' = "quit"
               /\ peer \notin open_fds']_vars

C13_Witness ==
    /\ pc = "quit"
    /\ packet_cursor = 20
    /\ At(client_packet, 0) = VNC_CLIENT_SETPIXELFORMAT
    /\ At(client_packet, 4) = 32
    /\ At(client_packet, 7) = 0
    /\ peer \notin open_fds

\* the SetEncodings messages of the stream that have been received whole
\* (by the lengths of the messages the client wrote)
ReceivedSetEncodings ==
    LET msgs == Messages(sent_msgs)
        offs == Offsets(msgs, 0)
    IN  SelectSeq([k \in 1..Len(msgs) |-> <<msgs[k], offs[k] + Len(msgs[k])>>],
                  LAMBDA e : e[1][1] = VNC_CLIENT_SETENCODINGS /\ e[2] <= ReceivedBytes)

\* the number of encodings a SetEncodings message announces, and whether 7
\* is one of them
EncodingCount(msg) == msg[3] * 256 + msg[4]
ListsTight(msg) ==
    \E i \in 0..(EncodingCount(msg) - 1) : SubSeq(msg, 5 + 4 * i, 8 + 4 * i) = <<0, 0, 0, 7>>

\* C14: encoding is Raw or Tight; between scans it is Tight exactly when the
\* last SetEncodings message received whole lists 7 among its N encodings
\* (Raw when there was none); a complete SetEncodings moves the scan on by
\* 4 + 4 * N bytes and an incomplete one leaves encoding alone.
C14_Encoding ==
    /\ [](encoding \in {VNC_RAW, VNC_TIGHT})
    /\ []((pc \in {"idle", "poll"} /\ WellFormedStream) =>
            LET got == ReceivedSetEncodings
            IN  encoding = IF got # <<>> /\ ListsTight(got[Len(got)][1])
                           THEN VNC_TIGHT ELSE VNC_RAW)
    /\ [][(Dispatching /\ TypeAtScan = VNC_CLIENT_SETENCODINGS) =>
            LET n == At(client_packet, message_scan_pos + 2) * 256
                        + At(client_packet, message_scan_pos + 3)
            IN  IF DataLeft >= 4 /\ DataLeft >= 4 + 4 * n
                THEN message_scan_pos' = message_scan_pos + 4 + 4 * n
                ELSE encoding' = encoding /\ message_scan_pos' = -1]_vars

C14_Witness ==
    LET msgs == Messages(sent_msgs)
    IN  /\ pc = "idle"
        /\ wire = <<>>
        /\ Len(msgs) = 2
        /\ msgs[1][1] = VNC_CLIENT_SETENCODINGS /\ ~ListsTight(msgs[1])
        /\ msgs[2][1] = VNC_CLIENT_SETENCODINGS /\ ListsTight(msgs[2])
        /\ EncodingCount(msgs[2]) = 2 /\ SubSeq(msgs[2], 5, 8) # <<0, 0, 0, 7>>
        /\ encoding = VNC_TIGHT

\* this step is a call of VNC_SendFrame (one that is seen: it sent a frame
\* or it is the first call since another function returned)
SendFrameCall ==
    /\ pc = "idle"
    /\ pc' \in {"idle", "quit"}
    /\ returned' = "VNC_SendFrame"
    /\ wire' = wire
    /\ (returned # "VNC_SendFrame" \/ frames' # frames)

\* this step puts a whole FramebufferUpdate on the wire
FrameSent == Len(frames') = Len(frames) + 1 /\ LastFrame(frames').sent = "all"

\* C15: a call of VNC_SendFrame with send_frame set and a palette present,
\* however many FramebufferUpdateRequests have set send_frame, sends one
\* FramebufferUpdate and clears send_frame (or a send fails and the process
\* is told to exit); no step sends more than one.
C15_Coalescing ==
    /\ [][(SendFrameCall /\ send_frame /\ palette # NULL) =>
            /\ Len(frames') = Len(frames) + 1
            /\ \/ FrameSent /\ ~send_frame' /\ pc' = "idle"
               \/ SendFailed /\ pc' = "quit"]_vars
    /\ [][Len(frames') <= Len(frames) + 1 /\ SubSeq(frames', 1, Len(frames)) = frames]_vars

\* three requests in one write have been consumed and answered by one frame
C15_Witness ==
    /\ pc = "idle"
    /\ sent_msgs = <<18>>
    /\ wire = <<>>
    /\ packet_cursor = 0
    /\ returned = "VNC_SendFrame"
    /\ ~send_frame
    /\ Len(frames) = 1
    /\ frames[1].sent = "all"

\* C16: a call of VNC_SendFrame with send_frame clear or without a palette
\* sends nothing and changes no field of the server; a frame that is sent
\* was asked for, has a palette, and carries the encoding type that encoding
\* names when the call is made.
C16_SendFrameNoOp ==
    /\ [][(SendFrameCall /\ (~send_frame \/ palette = NULL)) =>
            UNCHANGED <<server, frames, open_fds, pc>>]_vars
    /\ [][frames' # frames =>
            /\ pc = "idle" /\ send_frame /\ palette # NULL
            /\ LastFrame(frames').type = encoding]_vars

\* the call was made with a request pending and no palette
C16_Witness ==
    /\ pc = "idle"
    /\ returned = "VNC_SendFrame"
    /\ send_frame
    /\ palette = NULL
    /\ frames = <<>>

\* the engine keeps calling: VNC_PumpMessages returns again and again and
\* VNC_SendFrame is called again and again
Alternating ==
    /\ []<>(pc = "idle" /\ returned = "VNC_PumpMessages")
    /\ []<><<SendFrameCall>>_vars

\* C17: while the engine keeps calling, a request that has been consumed
\* (send_frame set) is answered once a palette is there: send_frame is
\* cleared again, and it is cleared by no step but the one that sends the
\* frame; without a palette the call leaves send_frame set.
C17_RequestAnswered ==
    /\ Alternating => ((send_frame /\ palette # NULL) ~> ~send_frame)
    /\ [][(send_frame /\ ~send_frame') => (FrameSent /\ SendFrameCall)]_vars
    /\ [][(SendFrameCall /\ send_frame /\ palette = NULL) => send_frame']_vars

\* a consumed request has been answered by a frame, sent once there was a palette
C17_Witness ==
    /\ pc = "idle"
    /\ returned = "VNC_SendFrame"
    /\ ~send_frame
    /\ Len(frames) = 1
    /\ frames[1].sent = "all"
    /\ sent_msgs = <<5>>
    /\ wire = <<>>

\* the KeyEvent the dispatcher is about to be called on, when it is whole,
\* and its down flag
KeyEventAtScan == Dispatching /\ TypeAtScan = VNC_CLIENT_KEYEVENT /\ DataLeft >= 8
DownFlagAtScan == At(client_packet, message_scan_pos + 1)

\* the keysym of bytes 4..7 read as the unsigned 32-bit number the client
\* sent: its top byte and its low three bytes
KeysymTop == At(client_packet, message_scan_pos + 4)
KeysymLow ==
    At(client_packet, message_scan_pos + 5) * 65536
    + At(client_packet, message_scan_pos + 6) * 256
    + At(client_packet, message_scan_pos + 7)
KeysymPrintable == KeysymTop = 0 /\ KeysymLow <= 127
KeysymAbove7f == KeysymTop > 0 \/ KeysymLow > 127

\* the characters a US keyboard gives with Shift, each with the character of
\* the same key without Shift
USShifted ==
    << <<33, 49>>, <<64, 50>>, <<35, 51>>, <<36, 52>>, <<37, 53>>, <<94, 54>>, <<38, 55>>,
       <<42, 56>>, <<40, 57>>, <<41, 48>>, <<95, 45>>, <<43, 61>>, <<123, 91>>, <<125, 93>>,
       <<124, 92>>, <<58, 59>>, <<34, 39>>, <<60, 44>>, <<62, 46>>, <<63, 47>>, <<126, 96>> >>

USUnshift(k) ==
    IF k >= 65 /\ k <= 90 THEN k + 32
    ELSE IF \E i \in 1..Len(USShifted) : USShifted[i][1] = k
    THEN USShifted[CHOOSE i \in 1..Len(USShifted) : USShifted[i][1] = k][2]
    ELSE k

\* C18: a whole KeyEvent with keysym k in 0..0x7f posts exactly one event and
\* is consumed: with a non-zero down flag ev_keydown with data1 = data2 = the
\* unshifted k and data3 = k when text_input is set, else 0; with a zero
\* down flag ev_keyup with data1 = the unshifted k and data2 = data3 = 0.
C18_PrintableKey ==
    [][(KeyEventAtScan /\ KeysymPrintable) =>
          /\ message_scan_pos' = message_scan_pos + 8
          /\ events' = Append(events,
                IF DownFlagAtScan # 0
                THEN KeyEv("ev_keydown", USUnshift(KeysymLow), USUnshift(KeysymLow),
                           IF text_input THEN KeysymLow ELSE 0)
                ELSE KeyEv("ev_keyup", USUnshift(KeysymLow), 0, 0))]_vars

\* key down of 'A' with text input on
C18_Witness ==
    /\ text_input
    /\ events = <<KeyEv("ev_keydown", 97, 97, 65)>>
    /\ returned = "VNC_PumpMessages"

\* the keysyms the switch of the KeyEvent case names
IsNamedKeysym(k) == NamedKeysym(k, FALSE)[2]

\* C19: a whole KeyEvent whose keysym, any 32-bit value above 0x7f, is none
\* of the named keysyms is consumed (the scan moves on by 8) and no event is
\* posted.
C19_UnknownKeysymDropped ==
    [][(KeyEventAtScan /\ KeysymAbove7f /\ ~(KeysymTop = 0 /\ IsNamedKeysym(KeysymLow))) =>
          /\ message_scan_pos' = message_scan_pos + 8
          /\ events' = events]_vars

\* the 0/1 value of bit i of b
Bit(b, i) == (b \div (2 ^ i)) % 2

\* the PointerEvent the dispatcher is about to be called on, when it is whole
PointerEventAtScan == Dispatching /\ TypeAtScan = VNC_CLIENT_POINTEREVENT /\ DataLeft >= 6
ButtonsAtScan == At(client_packet, message_scan_pos + 1)

\* C20: for the button byte b of a PointerEvent the mask is
\* left + 2*right + 4*middle + 8*scroll_up + 16*scroll_down with left,
\* middle, right, scroll_up, scroll_down the bits 0, 1, 2, 3, 4 of b; it is
\* what data1 of the posted ev_mouse carries, and it lies in 0..31.
C20_ButtonMask ==
    /\ [][PointerEventAtScan =>
            mouse_buttons' = Bit(ButtonsAtScan, 0) + 2 * Bit(ButtonsAtScan, 2)
                             + 4 * Bit(ButtonsAtScan, 1) + 8 * Bit(ButtonsAtScan, 3)
                             + 16 * Bit(ButtonsAtScan, 4)]_vars
    /\ [][(events' # events /\ LastFrame(events').type = "ev_mouse") =>
            /\ LastFrame(events').data1 = mouse_buttons
            /\ LastFrame(events').data1 \in 0..31]_vars

\* (what C19 leaves true) the same for the keysyms from 0x80 to 0x7fffffff
C19_PositiveKeysymDropped ==
    [][(KeyEventAtScan /\ KeysymAbove7f /\ KeysymTop < 128
          /\ ~(KeysymTop = 0 /\ IsNamedKeysym(KeysymLow))) =>
          /\ message_scan_pos' = message_scan_pos + 8
          /\ events' = events]_vars

\* (what C20 leaves true) the mask the code packs
C20_CodeMask ==
    [][PointerEventAtScan => mouse_buttons' = PackButtons(ButtonsAtScan)]_vars

\* a call of VNC_PumpMessages returns with this step
PumpReturns == pc = "poll" /\ pc' = "idle"

\* the position a whole PointerEvent at the scan position carries
XAtScan == At(client_packet, message_scan_pos + 2) * 256 + At(client_packet, message_scan_pos + 3)
YAtScan == At(client_packet, message_scan_pos + 4) * 256 + At(client_packet, message_scan_pos + 5)

\* the pointer staged by the call in progress
Staged == <<new_mouse_x, new_mouse_y, mouse_buttons>>

\* C21: every PointerEvent consumed stages its position and buttons; a call
\* of VNC_PumpMessages that has staged a pointer posts, as it returns, one
\* ev_mouse with the staged buttons and the deltas against mouse_x, mouse_y,
\* which it then sets to the staged position; a call that has staged none
\* posts no ev_mouse and leaves mouse_x, mouse_y alone; no other step posts
\* an ev_mouse or moves mouse_x, mouse_y.
C21_PointerCoalescing ==
    /\ [](pc = "idle" => new_mouse_x = -1)
    /\ [][PointerEventAtScan =>
            Staged' = <<XAtScan, YAtScan, PackButtons(ButtonsAtScan)>>]_vars
    /\ [][PumpReturns =>
            IF new_mouse_x # -1
            THEN /\ events' = Append(events, MouseEvent(mouse_buttons, new_mouse_x, new_mouse_y,
                                                        mouse_x, mouse_y))
                 /\ mouse_x' = new_mouse_x
                 /\ mouse_y' = new_mouse_y
            ELSE UNCHANGED <<events, mouse_x, mouse_y>>]_vars
    /\ [][~PumpReturns =>
            /\ UNCHANGED <<mouse_x, mouse_y>>
            /\ events' = events \/ LastFrame(events').type # "ev_mouse"
            /\ (pc \in {"poll", "scan"} /\ ~PointerEventAtScan) => Staged' = Staged]_vars

\* (what C21 leaves true) the same, for the calls that return after select
\* has returned 0
C21_CoalescingWhenPolled ==
    /\ [](pc = "idle" => new_mouse_x = -1)
    /\ [][PointerEventAtScan =>
            Staged' = <<XAtScan, YAtScan, PackButtons(ButtonsAtScan)>>]_vars
    /\ [][(PumpReturns /\ (new_mouse_x = -1 \/ events' # events)) =>
            IF new_mouse_x # -1
            THEN /\ events' = Append(events, MouseEvent(mouse_buttons, new_mouse_x, new_mouse_y,
                                                        mouse_x, mouse_y))
                 /\ mouse_x' = new_mouse_x
                 /\ mouse_y' = new_mouse_y
            ELSE UNCHANGED <<events, mouse_x, mouse_y>>]_vars
    /\ [][~PumpReturns =>
            /\ UNCHANGED <<mouse_x, mouse_y>>
            /\ events' = events \/ LastFrame(events').type # "ev_mouse"
            /\ (pc \in {"poll", "scan"} /\ ~PointerEventAtScan) => Staged' = Staged]_vars

\* the key events among the posted events, in the order of posting
KeyEvents(evs) == SelectSeq(evs, LAMBDA e : e.type \in {"ev_keydown", "ev_keyup"})

\* the KeyEvent messages the client has written, in the order of writing,
\* that have been dispatched: those that end at or before the received bytes
\* less what is still in the buffer
DispatchedKeyMessages ==
    LET msgs == Messages(sent_msgs)
        offs == Offsets(msgs, 0)
        done == ReceivedBytes - (IF pc = "scan" THEN packet_cursor - message_scan_pos
                                 ELSE packet_cursor)
        keys == SelectSeq([k \in 1..Len(msgs) |-> <<msgs[k], offs[k] + Len(msgs[k])>>],
                          LAMBDA e : e[1][1] = VNC_CLIENT_KEYEVENT /\ e[2] <= done)
    IN  [k \in 1..Len(keys) |-> keys[k][1]]

HeaderStored == epc = "call" /\ epc' = "header"
PixelStored == epc = "raw_pixels" /\ frame_i' = frame_i + 1
LoopTurn == epc = "zlib_loop" /\ frame_i' = frame_i + 1
TrailerStored == epc = "zlib_loop" /\ epc' = "tight_send"

\* a 16-bit number from its high and its low byte
Be16(hi, lo) == hi * 256 + lo

\* C23: the Raw header is 16 bytes: type 0, one rectangle, x = 0, y = 0,
\* width, height, encoding 0; pixel i is stored at offset 4*i as the bytes
\* P[3*F[i]+2], P[3*F[i]+1], P[3*F[i]], 0, which read as a little-endian
\* 32-bit number give red, green, blue at shifts 16, 8, 0; the body sent is
\* 4 * width * height bytes.
C23_RawEncoding ==
    /\ [][(HeaderStored /\ encoding = VNC_RAW) =>
            /\ Len(written') = 16 /\ send_offset' = 16
            /\ written'[1] = 0
            /\ Be16(written'[3], written'[4]) = 1
            /\ Be16(written'[5], written'[6]) = 0
            /\ Be16(written'[7], written'[8]) = 0
            /\ Be16(written'[9], written'[10]) = width
            /\ Be16(written'[11], written'[12]) = height
            /\ SubSeq(written', 13, 16) = <<0, 0, 0, 0>>]_vars
    /\ [][PixelStored =>
            LET index == FrameAt(frame_i)
                pixel == written'[1] + 256 * written'[2] + 65536 * written'[3]
            IN  /\ send_offset = 4 * frame_i /\ send_offset' = send_offset + 4
                /\ written' = <<PaletteAt(3 * index + 2), PaletteAt(3 * index + 1),
                                PaletteAt(3 * index), 0>>
                /\ (pixel \div 65536) % 256 = PaletteAt(3 * index)
                /\ (pixel \div 256) % 256 = PaletteAt(3 * index + 1)
                /\ pixel % 256 = PaletteAt(3 * index + 2)]_vars
    /\ [][(epc = "raw_pixels" /\ epc' = "sent") =>
            frame_i = width * height /\ send_offset = 4 * width * height]_vars

\* a frame of 300 pixels has gone out in Raw
C23_Witness ==
    /\ epc = "sent"
    /\ encoding = VNC_RAW
    /\ width = 300 /\ height = 1
    /\ frame = <<255, 128, 7>>
    /\ send_offset = 1200

\* C24: every header of a stored block has LEN + NLEN = 0xFFFF, LEN and NLEN
\* read as 16-bit little-endian numbers, the final block and the others
\* alike.
C24_LenNlen ==
    [][(LoopTurn /\ Len(written') > 1) =>
          /\ Len(written') = 6
          /\ written'[1] \in {0, 1}
          /\ Be16(written'[3], written'[2]) + Be16(written'[5], written'[4]) = 65535]_vars

\* the header of a final block has been stored after a block that was not
\* final
C24_Witness ==
    /\ epc = "zlib_loop"
    /\ Len(written) = 6
    /\ written[1] = 1
    /\ frame_i > 65535

\* C25: the stored blocks partition the frame: a block header is stored
\* before byte i of the frame exactly when i is a multiple of 65535; its LEN
\* is what is left of the frame, 65535 at most, and it is final exactly when
\* that is all that is left; every turn stores the palette index frame[i] as
\* the next literal, and the trailer follows byte width*height - 1.
C25_BlocksPartition ==
    /\ [][LoopTurn =>
            LET left == width * height - frame_i
            IN  /\ Len(written') = (IF frame_i % 65535 = 0 THEN 6 ELSE 1)
                /\ written'[Len(written')] = FrameAt(frame_i)
                /\ send_offset' = send_offset + Len(written')
                /\ Len(written') = 6 =>
                     /\ Be16(written'[3], written'[2]) = (IF left > 65535 THEN 65535 ELSE left)
                     /\ Be16(written'[3], written'[2]) \in 1..65535
                     /\ written'[1] = (IF left > 65535 THEN 0 ELSE 1)]_vars
    /\ [][TrailerStored => frame_i = width * height]_vars

\* a frame of two blocks, of 65535 bytes and of one, has been encoded
C25_Witness ==
    /\ epc = "tight_send"
    /\ width * height = 65536
    /\ frame_i = 65536

\* the number the bytes of a Tight compact length stand for
CompactValue(bytes) ==
    (bytes[1] % 128)
    + (IF Len(bytes) >= 2 THEN 128 * (bytes[2] % 128) ELSE 0)
    + (IF Len(bytes) >= 3 THEN 16384 * bytes[3] ELSE 0)

\* C26: the compact length written is 6 + n + 5 * ceil(n / 65535) for n =
\* width * height, and that is the number of bytes of the zlib stream stored
\* after it, trailer included.
C26_CompactLength ==
    /\ [][epc = "tight_length" =>
            CompactValue(written') =
                6 + width * height + 5 * ((width * height + 65534) \div 65535)]_vars
    /\ [][TrailerStored =>
            send_offset' - zlib_data_start = zlib_data_size]_vars

\* (what C26 leaves true) the compact length written is 6 + n + 5 * (n div
\* 65536 + 1), and it is the length of the stream when n div 65536 + 1 is
\* the number of blocks
C26_LengthAsComputed ==
    /\ [][epc = "tight_length" =>
            /\ CompactValue(written') = 6 + width * height + 5 * ((width * height) \div 65536 + 1)
            /\ zlib_data_size' = CompactValue(written')]_vars
    /\ [][(TrailerStored
            /\ (width * height) \div 65536 + 1 = (width * height + 65534) \div 65535) =>
            send_offset' - zlib_data_start = zlib_data_size]_vars

C28_OversizedCutTextIsLocal ==
    /\ [](pc = "poll" /\ wire # <<>> => packet_cursor < VNC_PACKET_SIZE)
    /\ [][(pc = "poll" /\ pc' = "quit" /\ wire # <<>>) =>
            packet_cursor < VNC_PACKET_SIZE]_vars

\* C29: the palette is null from VNC_Init until the first VNC_PreparePalette,
\* which alone allocates it; a later VNC_PreparePalette keeps the buffer; and
\* whatever the width and height, the buffer holds the 768 bytes that
\* VNC_PreparePalette stores in it.
C29_PaletteBuffer ==
    /\ [](returned = "VNC_Init" => palette = NULL)
    /\ [][(palette = NULL /\ palette' # NULL) => returned' = "VNC_PreparePalette"]_vars
    /\ [][(palette # NULL /\ returned' = "VNC_PreparePalette") => palette' = palette]_vars
    /\ [](palette # NULL => PaletteCapacity >= PaletteBytesWritten)

\* what is left of C29 for the framebuffers of 256 pixels and more
C29_PaletteWhenLarge ==
    /\ [](returned = "VNC_Init" => palette = NULL)
    /\ [][(palette = NULL /\ palette' # NULL) => returned' = "VNC_PreparePalette"]_vars
    /\ [](palette # NULL /\ width * height >= 256 =>
            PaletteCapacity >= PaletteBytesWritten)

\* the dispatcher's return value is -1, -2 or a position after
\* message_scan_pos and not after packet_cursor
ReturnInRange(ret) ==
    \/ ret = -1
    \/ ret = -2
    \/ message_scan_pos < ret /\ ret <= packet_cursor

\* C30: whatever the buffer holds, the dispatcher called at message_scan_pos
\* returns -1, -2 or a position p with message_scan_pos < p <= packet_cursor,
\* for SetEncodings with any count and for ClientCutText with any length, a
\* length with the top bit set included.
C30_DispatcherReturn ==
    Dispatching => \A below \in BelowTable : ReturnInRange(Dispatched(below).ret)

\* what is left of C30 for the messages other than ClientCutText
C30_ReturnOtherThanCutText ==
    (Dispatching /\ (DataLeft > 0 => TypeAtScan # VNC_CLIENT_CLIENTCUTTEXT)) =>
        \A below \in BelowTable : ReturnInRange(Dispatched(below).ret)

\* a SetEncodings message with two encodings has been consumed whole
C30_SetEncodingsConsumed ==
    /\ Dispatching
    /\ DataLeft >= 12
    /\ TypeAtScan = VNC_CLIENT_SETENCODINGS
    /\ Dispatched(0).ret = message_scan_pos + 12

\* how many messages of the given type the client has written so far
Written(type) == Len(SelectSeq(Messages(sent_msgs), LAMBDA m : m[1] = type))

\* the FramebufferUpdate messages of which at least the header went out
FramesTransmitted == Len(SelectSeq(frames, LAMBDA f : f.sent # "none"))

\* C31: a message of the client is dispatched at most once: there are no
\* more key events posted than KeyEvent messages written, and no more
\* FramebufferUpdate messages transmitted than FramebufferUpdateRequest
\* messages written, whatever follows them in the stream.
C31_AtMostOnce ==
    /\ Len(KeyEvents(events)) <= Written(VNC_CLIENT_KEYEVENT)
    /\ FramesTransmitted <= Written(VNC_CLIENT_FRAMEBUFFERUPDATEREQUEST)

\* the length field of the message at the scan position, bytes 6 and 7
CutTextLength ==
    At(client_packet, message_scan_pos + 6) * 256 + At(client_packet, message_scan_pos + 7)

\* a whole ClientCutText is at the scan position: its 8 + L bytes are in the
\* buffer
CutTextAtScan ==
    /\ Dispatching
    /\ DataLeft >= 8
    /\ TypeAtScan = VNC_CLIENT_CLIENTCUTTEXT
    /\ At(client_packet, message_scan_pos + 4) = 0
    /\ At(client_packet, message_scan_pos + 5) = 0
    /\ DataLeft >= 8 + CutTextLength

\* the client's bytes have all been received and scanned
AllScanned == pc \in {"idle", "poll"} /\ wire = <<>> /\ sent_msgs # <<>>

\* the last message the client has written
LastWritten == LET msgs == Messages(sent_msgs) IN msgs[Len(msgs)]

\* C32: a ClientCutText whose 8 + L bytes are in the buffer is discarded: the
\* dispatcher returns the scan position plus 8 + L with no effect, the step
\* changes nothing but the scan position, and the messages behind it are
\* parsed: when all bytes are scanned the buffer is empty, a KeyEvent written
\* last has given the last key event, and a request written has set
\* send_frame.
C32_CutTextDiscarded ==
    /\ [](CutTextAtScan =>
            \A below \in BelowTable :
                Dispatched(below) = Outcome(message_scan_pos + 8 + CutTextLength))
    /\ [][CutTextAtScan =>
            /\ message_scan_pos' = message_scan_pos + 8 + CutTextLength
            /\ pc' = "scan"
            /\ UNCHANGED <<server, events, new_mouse_x, new_mouse_y, mouse_buttons,
                           open_fds, client, engine>>]_vars
    /\ [](AllScanned =>
            /\ packet_cursor = 0
            /\ (LastWritten[1] = VNC_CLIENT_KEYEVENT /\ LastWritten[5] = 0) =>
                 /\ KeyEvents(events) # <<>>
                 /\ LastFrame(KeyEvents(events)) =
                        HandleKeyEvent(LastWritten, 0, 8, text_input, 0).posted[1]
            /\ Written(VNC_CLIENT_FRAMEBUFFERUPDATEREQUEST) > 0 => send_frame)

\* a ClientCutText of three bytes has been stepped over and the PointerEvent
\* behind it is at the scan position
C32_Witness ==
    /\ Dispatching
    /\ message_scan_pos = 11
    /\ packet_cursor >= 17
    /\ At(client_packet, 0) = VNC_CLIENT_CLIENTCUTTEXT
    /\ TypeAtScan = VNC_CLIENT_POINTEREVENT

\* the PointerEvent messages the client has written that have been
\* dispatched, in the order of writing
DispatchedPointerMessages ==
    LET msgs == Messages(sent_msgs)
        offs == Offsets(msgs, 0)
        done == ReceivedBytes - (IF pc = "scan" THEN packet_cursor - message_scan_pos
                                 ELSE packet_cursor)
        ptrs == SelectSeq([k \in 1..Len(msgs) |-> <<msgs[k], offs[k] + Len(msgs[k])>>],
                          LAMBDA e : e[1][1] = VNC_CLIENT_POINTEREVENT /\ e[2] <= done)
    IN  [k \in 1..Len(ptrs) |-> ptrs[k][1]]

\* the position of the last PointerEvent dispatched, <<0, 0>> when there is
\* none
LastPointerPosition ==
    LET ptrs == DispatchedPointerMessages
    IN  IF ptrs = <<>> THEN <<0, 0>>
        ELSE LET m == ptrs[Len(ptrs)]
             IN  <<m[3] * 256 + m[4], m[5] * 256 + m[6]>>

RECURSIVE SumDeltas(_)
\* the sum of the deltas of the mouse events of a sequence of events
SumDeltas(evs) ==
    IF evs = <<>> THEN <<0, 0>>
    ELSE LET rest == SumDeltas(Tail(evs))
             e == Head(evs)
         IN  IF e.type = "ev_mouse"
             THEN <<e.data2 + rest[1], e.data3 + rest[2]>>
             ELSE rest

\* C33: between the calls of VNC_PumpMessages, mouse_x and mouse_y are the
\* position of the last PointerEvent consumed (0, 0 when there is none) and
\* equal the sum of the deltas of the mouse events posted; a call that
\* returns with the stored position staged again posts a mouse event with
\* the deltas 0, 0.
C33_MousePosition ==
    /\ [](pc = "idle" =>
            /\ <<mouse_x, mouse_y>> = LastPointerPosition
            /\ <<mouse_x, mouse_y>> = SumDeltas(events))
    /\ [][(PumpReturns /\ new_mouse_x = mouse_x /\ new_mouse_y = mouse_y) =>
            /\ Len(events') = Len(events) + 1
            /\ LastFrame(events').type = "ev_mouse"
            /\ LastFrame(events').data2 = 0
            /\ LastFrame(events').data3 = 0]_vars

\* (what C33 leaves true) the stored position is the sum of the deltas
\* posted, and a call that posts a mouse event leaves the last position
\* consumed in mouse_x, mouse_y
C33_PositionWhenPolled ==
    /\ [](<<mouse_x, mouse_y>> = SumDeltas(events))
    /\ [][(PumpReturns /\ events' # events) =>
            <<mouse_x', mouse_y'>> = LastPointerPosition']_vars

\* a call has returned with the position it found stored: the last mouse
\* event carries the deltas 0, 0 and another one before it does not
C33_RepeatedPosition ==
    /\ pc = "idle"
    /\ Len(events) >= 2
    /\ LastFrame(events).type = "ev_mouse"
    /\ LastFrame(events).data2 = 0
    /\ LastFrame(events).data3 = 0
    /\ mouse_x = 15

\* C34: whatever the width and height, the bytes the Raw and the Tight
\* encoder store in server_packet lie inside the buffer VNC_Init allocated:
\* the offset behind the last byte stored never exceeds its size.
C34_EncoderInsideBuffer ==
    server_packet # NULL => send_offset <= ServerPacketCapacity

\* (what C34 leaves true) the Raw encoder stays inside the buffer for every
\* size, the Tight encoder for the framebuffers of 26 pixels and more
C34_InsideWhenLarge ==
    (server_packet # NULL /\ (encoding = VNC_RAW \/ FrameDataSize >= 26)) =>
        send_offset <= ServerPacketCapacity

\* the Tight encoder has stored the last byte of a frame of 25 pixels: 808
\* bytes in a buffer of 800
C34_Overrun25 ==
    /\ encoding = VNC_TIGHT
    /\ FrameDataSize = 25
    /\ server_packet # NULL
    /\ send_offset = 808

\* C35: a call of the dispatcher reads client_packet only below
\* packet_cursor, and it does not index the unshift table outside 0..127.
C35_ReadsInsideBuffer ==
    Dispatching =>
        /\ LastRead(client_packet, packet_cursor, message_scan_pos) < packet_cursor
        /\ ~ReadsBelowTable(client_packet, packet_cursor, message_scan_pos)

\* (what C35 leaves true) when the dispatcher consumes a message, the bytes
\* it has read were in the buffer
C35_ReadsWhenComplete ==
    Dispatching =>
        \A below \in BelowTable :
            Dispatched(below).ret >= 0 =>
                LastRead(client_packet, packet_cursor, message_scan_pos) < packet_cursor

\* the loop over the encodings reads past the end of client_packet
C35_ReadsPastArray ==
    /\ Dispatching
    /\ LastRead(client_packet, packet_cursor, message_scan_pos) >= VNC_PACKET_SIZE

\* the printable characters a US keyboard gives without Shift
NonShifted ==
    { k \in 32..126 :
        /\ ~(k >= 65 /\ k <= 90)
        /\ \A i \in 1..Len(USShifted) : USShifted[i][1] # k }

\* C36: for the keysym k of a KeyEvent, k in 0..0x7f, unshift is idempotent,
\* maps 'A'..'Z' to k + 0x20 and leaves the digits, the lower-case letters
\* and the other characters typed without Shift as they are; the key the
\* KeyEvent posts is the unshifted k, a fixed point of unshift.
C36_UnshiftIdempotent ==
    /\ []((KeyEventAtScan /\ KeysymPrintable) =>
            LET k == KeysymLow
            IN  /\ Unshift(Unshift(k, 0), 0) = Unshift(k, 0)
                /\ (k >= 65 /\ k <= 90) => Unshift(k, 0) = k + 32
                /\ k \in NonShifted => Unshift(k, 0) = k)
    /\ [][(KeyEventAtScan /\ KeysymPrintable) =>
            /\ Len(events') = Len(events) + 1
            /\ LastFrame(events').data1 = Unshift(KeysymLow, 0)
            /\ Unshift(LastFrame(events').data1, 0) = LastFrame(events').data1]_vars

\* the key down of '"' has posted the key of the apostrophe
C36_Witness ==
    /\ Len(Stream) = 8
    /\ Stream[8] = 34
    /\ events = <<KeyEv("ev_keydown", 39, 39, 0)>>

\* this step is a call of VNC_PumpMessages
PumpCall == pc = "idle" /\ pc' = "poll"

\* this step is a call of I_ShutdownGraphics that calls VNC_Exit
ShutdownExits ==
    /\ pc \in {"start", "idle", "quit"}
    /\ pc' \in {"start", "exited"}
    /\ returned' = "VNC_Exit"

\* C37: I_StartTic and I_FinishUpdate call VNC_PumpMessages and VNC_SendFrame
\* only while initialized is set, which it is from the end of an
\* I_InitGraphics to the next I_ShutdownGraphics; an I_ShutdownGraphics that
\* finds initialized clear changes nothing, one that finds it set calls
\* VNC_Exit and clears it, so VNC_Exit is called from I_ShutdownGraphics at
\* most once for each I_InitGraphics.
C37_EngineLifecycle ==
    /\ [][(PumpCall \/ SendFrameCall) => initialized]_vars
    /\ [][(~initialized /\ initialized') =>
            returned = "VNC_Init" /\ returned' = "VNC_PreparePalette"]_vars
    /\ [][(initialized /\ ~initialized') => ShutdownExits]_vars
    /\ [][ShutdownExits => initialized /\ ~initialized']_vars
    /\ [][(pc' = "start" /\ returned' = "I_ShutdownGraphics") =>
            /\ ~initialized
            /\ UNCHANGED <<server, open_fds, client, events, initialized, frames>>]_vars

\* I_ShutdownGraphics has been called again after it had called VNC_Exit,
\* following a session in which a frame was sent
C37_Witness ==
    /\ returned = "I_ShutdownGraphics"
    /\ ~initialized
    /\ pc = "start"
    /\ server_packet = NULL
    /\ frames # <<>>

\* a second I_InitGraphics has completed after an I_ShutdownGraphics
C37_SecondInit ==
    /\ initialized
    /\ pc = "idle"
    /\ frames # <<>>
    /\ send_frame = FALSE
    /\ returned = "VNC_PreparePalette"
    /\ peer \notin {3}

====
